---- MODULE Spec2Model ----
(***************************************************************************)
(* A model of the rchess position engine: bitboard geometry, the attack    *)
(* tables, the position and its make_move, the legal move generator, the   *)
(* board builder / FEN loader and the ChessGame controller.                *)
(*                                                                         *)
(* A BitBoard is the set of the squares whose bit is set (squares are      *)
(* 0..63, index = rank*8 + file).  A ZobristHash is the set of the table   *)
(* entries XORed into it an odd number of times (the entries are           *)
(* independent random 64-bit words), so XOR is symmetric difference.       *)
(***************************************************************************)
EXTENDS Integers, Sequences, FiniteSets, TLC

\* --------------------------------------------------------------------------
\* Bounds of the exploration
\* --------------------------------------------------------------------------
MaxPly == 2

MaxRepPly == 9

MaxLivePly == 8

MaxLiveClock == 100

\* --------------------------------------------------------------------------
\* defs: squares, ranks, files, colors, pieces, directions
\* --------------------------------------------------------------------------
SQUARES == 0 .. 63

A1 == 0
B1 == 1
C1 == 2
D1 == 3
E1 == 4
F1 == 5
G1 == 6
H1 == 7
A8 == 56
B8 == 57
C8 == 58
D8 == 59
E8 == 60
F8 == 61
G8 == 62
H8 == 63

First == 0
Second == 1
Third == 2
Fourth == 3
Fifth == 4
Sixth == 5
Seventh == 6
Eighth == 7

FileA == 0
FileB == 1
FileG == 6
FileH == 7

Rank_of(square) == square \div 8

File_of(square) == square % 8

Not(color) == IF color = "White" THEN "Black" ELSE "White"

PieceTypes == {"Pawn", "Knight", "Bishop", "Rook", "Queen", "King"}

Colors == {"White", "Black"}

DIRS == <<"Up", "Down", "Left", "Right", "UpLeft", "UpRight", "DownLeft", "DownRight">>

\* --------------------------------------------------------------------------
\* BitBoard
\* --------------------------------------------------------------------------
EMPTY == {}

Xor(a, b) == (a \ b) \cup (b \ a)

overlaps(a, b) == a \cap b # {}

popcnt(bb) == Cardinality(bb)

b_scan_forward(bb) == CHOOSE s \in bb : \A t \in bb : s <= t

b_scan_reverse(bb) == CHOOSE s \in bb : \A t \in bb : s >= t

from_rank(rank) == {s \in SQUARES : s \div 8 = rank}

from_file(file) == {s \in SQUARES : s % 8 = file}

\* BitBoard::WHITE_SQUARES = 0x55AA55AA55AA55AA: byte 0x AA on the even
\* ranks (bits 1,3,5,7), byte 0x55 on the odd ranks (bits 0,2,4,6).
WHITE_SQUARES == {s \in SQUARES : (Rank_of(s) + File_of(s)) % 2 = 1}

\* BitBoard::BLACK_SQUARES = 0xAA55AA55AA55AA55
BLACK_SQUARES == {s \in SQUARES : (Rank_of(s) + File_of(s)) % 2 = 0}

\* val <<= 8 : bits shifted past bit 63 are lost
up(bb) == {s + 8 : s \in {t \in bb : t + 8 <= 63}}

\* val >>= 8
down(bb) == {s - 8 : s \in {t \in bb : t >= 8}}

\* val >>= 1 : a file-A bit lands on file H of the rank below
left(bb) == {s - 1 : s \in {t \in bb : t >= 1}}

\* val <<= 1 : a file-H bit lands on file A of the rank above
right(bb) == {s + 1 : s \in {t \in bb : t <= 62}}

shift_dir(bb, dir) ==
    CASE dir = "Up" -> up(bb)
      [] dir = "Down" -> down(bb)
      [] dir = "Left" -> left(bb)
      [] dir = "Right" -> right(bb)
      [] dir = "UpLeft" -> left(up(bb))
      [] dir = "UpRight" -> right(up(bb))
      [] dir = "DownLeft" -> left(down(bb))
      [] dir = "DownRight" -> right(down(bb))

edge(dir) ==
    CASE dir = "Up" -> from_rank(Eighth)
      [] dir = "Down" -> from_rank(First)
      [] dir = "Left" -> from_file(FileA)
      [] dir = "Right" -> from_file(FileH)
      [] dir = "UpLeft" -> from_rank(Eighth) \cup from_file(FileA)
      [] dir = "UpRight" -> from_rank(Eighth) \cup from_file(FileH)
      [] dir = "DownLeft" -> from_rank(First) \cup from_file(FileA)
      [] dir = "DownRight" -> from_rank(First) \cup from_file(FileH)

\* --------------------------------------------------------------------------
\* table_gen: rays, slider attacks, connections, leapers
\* --------------------------------------------------------------------------
\* Where a value of the code is used more than once it is bound as an
\* operator parameter (the operator named *_with, *_in or *_body), so that
\* every definition is written out once per use.

RECURSIVE ray_loop(_, _, _)
\* the body of the while loop of generate_rays, entered with pos already
\* shifted: rays[square][dir] |= pos
ray_loop_body(pos, ray, dir) == ray_loop(pos, ray \cup pos, dir)

\* while !dir.edge().overlaps(pos) { pos = pos.shift_dir(dir); ... }
ray_loop(pos, ray, dir) ==
    IF overlaps(edge(dir), pos) THEN ray ELSE ray_loop_body(shift_dir(pos, dir), ray, dir)

generate_rays == [sq \in SQUARES |-> [dir \in {DIRS[i] : i \in 1 .. 8} |-> ray_loop({sq}, EMPTY, dir)]]

RAYS == generate_rays

\* the match on dir of ray_attacks
blocker_square(dir, blockers) ==
    IF dir \in {"Up", "Right", "UpLeft", "UpRight"}
    THEN b_scan_forward(blockers)
    ELSE b_scan_reverse(blockers)

\* ray_attacks with the RAYS table bound to rays
ray_attacks_in(rays, square, dir, occupancy) ==
    IF rays[square][dir] \cap occupancy # {}
    THEN Xor(rays[square][dir],
             rays[blocker_square(dir, rays[square][dir] \cap occupancy)][dir])
    ELSE rays[square][dir]

ray_attacks(square, dir, occupancy) == ray_attacks_in(RAYS, square, dir, occupancy)

get_bishop_attacks_slow(square, occupancy) ==
    UNION {ray_attacks(square, dir, occupancy) :
               dir \in {"UpLeft", "UpRight", "DownLeft", "DownRight"}}

get_rook_attacks_slow(square, occupancy) ==
    UNION {ray_attacks(square, dir, occupancy) : dir \in {"Up", "Down", "Left", "Right"}}

get_bishop_mask(square) ==
    (((get_bishop_attacks_slow(square, EMPTY) \ from_rank(First)) \ from_rank(Eighth))
        \ from_file(FileA)) \ from_file(FileH)

get_rook_mask(square) ==
    get_rook_attacks_slow(square, EMPTY)
        \ ((IF Rank_of(square) # First THEN from_rank(First) ELSE {})
           \cup (IF Rank_of(square) # Eighth THEN from_rank(Eighth) ELSE {})
           \cup (IF File_of(square) # FileA THEN from_file(FileA) ELSE {})
           \cup (IF File_of(square) # FileH THEN from_file(FileH) ELSE {}))

\* Magic.mask of BISHOP_MAGICS[sq] / ROOK_MAGICS[sq]
BISHOP_MAGICS == [sq \in SQUARES |-> get_bishop_mask(sq)]

ROOK_MAGICS == [sq \in SQUARES |-> get_rook_mask(sq)]

\* The magic lookup: the table entry at key(occupancy) is the slow attack set
\* of the masked occupancy (generate_*_magics accepts a magic only when no two
\* masked occupancies with different attack sets share a key).
get_bishop_attacks(square, occupancy) ==
    get_bishop_attacks_slow(square, occupancy \cap BISHOP_MAGICS[square])

get_rook_attacks(square, occupancy) ==
    get_rook_attacks_slow(square, occupancy \cap ROOK_MAGICS[square])

\* get_ghost_bishop with bishop_seen bound
ghost_bishop_with(square, occupancy, friendly, bishop_seen) ==
    Xor(bishop_seen, get_bishop_attacks(square, Xor(occupancy, friendly \cap bishop_seen)))

get_ghost_bishop(square, occupancy, friendly) ==
    ghost_bishop_with(square, occupancy, friendly, get_bishop_attacks(square, occupancy))

\* get_ghost_rook with rook_seen bound
ghost_rook_with(square, occupancy, friendly, rook_seen) ==
    Xor(rook_seen, get_rook_attacks(square, Xor(occupancy, friendly \cap rook_seen)))

get_ghost_rook(square, occupancy, friendly) ==
    ghost_rook_with(square, occupancy, friendly, get_rook_attacks(square, occupancy))

\* the connection of generate_direct_connections with the attacks of
\* start_sq and of end_sq bound
direct_connection_with(end_sq, bishop_attacks, rook_attacks, bishop2, rook2) ==
    IF end_sq \in bishop_attacks THEN bishop_attacks \cap bishop2
    ELSE IF end_sq \in rook_attacks THEN rook_attacks \cap rook2
    ELSE EMPTY

generate_direct_connections ==
    [start_sq \in SQUARES |-> [end_sq \in SQUARES |->
        direct_connection_with(end_sq,
            get_bishop_attacks_slow(start_sq, {start_sq, end_sq}),
            get_rook_attacks_slow(start_sq, {start_sq, end_sq}),
            get_bishop_attacks_slow(end_sq, {start_sq, end_sq}),
            get_rook_attacks_slow(end_sq, {start_sq, end_sq}))]]

DIRECT_CONNECTIONS == generate_direct_connections

\* the connection of generate_axis_connections with the attacks bound
axis_connection_with(end_sq, bishop_attacks, rook_attacks, bishop2, rook2) ==
    (IF end_sq \in bishop_attacks THEN bishop_attacks \cap bishop2 ELSE EMPTY)
        \cup (IF end_sq \in rook_attacks THEN rook_attacks \cap rook2 ELSE EMPTY)

generate_axis_connections ==
    [start_sq \in SQUARES |-> [end_sq \in SQUARES |->
        axis_connection_with(end_sq,
            get_bishop_attacks_slow(start_sq, EMPTY) \cup {start_sq},
            get_rook_attacks_slow(start_sq, EMPTY) \cup {start_sq},
            get_bishop_attacks_slow(end_sq, EMPTY) \cup {end_sq},
            get_rook_attacks_slow(end_sq, EMPTY) \cup {end_sq})]]

AXIS_CONNECTIONS == generate_axis_connections

generate_pawn_attacks ==
    [color \in Colors |-> [square \in SQUARES |->
        IF color = "White"
        THEN (IF File_of(square) # FileA /\ Rank_of(square) # Eighth
              THEN left(up({square})) ELSE {})
             \cup (IF File_of(square) # FileH /\ Rank_of(square) # Eighth
                   THEN right(up({square})) ELSE {})
        ELSE (IF File_of(square) # FileA /\ Rank_of(square) # First
              THEN left(down({square})) ELSE {})
             \cup (IF File_of(square) # FileH /\ Rank_of(square) # First
                   THEN right(down({square})) ELSE {})]]

PAWN_ATTACKS == generate_pawn_attacks

generate_knight_attacks ==
    [square \in SQUARES |->
        LET r == Rank_of(square)
            f == File_of(square)
            bb == {square}
        IN  (IF r # Eighth /\ f > FileB THEN left(left(up(bb))) ELSE {})
            \cup (IF r # Eighth /\ f < FileG THEN right(right(up(bb))) ELSE {})
            \cup (IF r # First /\ f > FileB THEN left(left(down(bb))) ELSE {})
            \cup (IF r # First /\ f < FileG THEN right(right(down(bb))) ELSE {})
            \cup (IF f # FileA /\ r < Seventh THEN up(up(left(bb))) ELSE {})
            \cup (IF f # FileA /\ r > Second THEN down(down(left(bb))) ELSE {})
            \cup (IF f # FileH /\ r < Seventh THEN up(up(right(bb))) ELSE {})
            \cup (IF f # FileH /\ r > Second THEN down(down(right(bb))) ELSE {})]

KNIGHT_ATTACKS == generate_knight_attacks

generate_king_attacks ==
    [square \in SQUARES |->
        LET r == Rank_of(square)
            f == File_of(square)
            bb == {square}
        IN  (IF r # First THEN down(bb) ELSE {})
            \cup (IF r # Eighth THEN up(bb) ELSE {})
            \cup (IF f # FileA THEN left(bb) ELSE {})
            \cup (IF f # FileH THEN right(bb) ELSE {})
            \cup (IF r # First /\ f # FileA THEN left(down(bb)) ELSE {})
            \cup (IF r # First /\ f # FileH THEN right(down(bb)) ELSE {})
            \cup (IF r # Eighth /\ f # FileA THEN left(up(bb)) ELSE {})
            \cup (IF r # Eighth /\ f # FileH THEN right(up(bb)) ELSE {})]

KING_ATTACKS == generate_king_attacks

get_pawn_attacks(square, color) == PAWN_ATTACKS[color][square]

get_knight_attacks(square) == KNIGHT_ATTACKS[square]

get_king_attacks(square) == KING_ATTACKS[square]

get_direct_connection(start, end) == DIRECT_CONNECTIONS[start][end]

get_connection_axis(start, end) == AXIS_CONNECTIONS[start][end]

\* --------------------------------------------------------------------------
\* ZobristHash
\* --------------------------------------------------------------------------
PIECE_ZOBRIST(color, kind, square) == <<"piece", color, kind, square>>

CASTLE_RIGHTS_ZOBRIST(side, color) == <<"castle", color, side, 0>>

EN_PASSANT_ZOBRIST(file) == <<"ep", "", "", file>>

TURN_ZOBRIST == <<"turn", "", "", 0>>

ZobristHash_new == {}

hash_piece(hash, square, piece) == Xor(hash, {PIECE_ZOBRIST(piece.color, piece.kind, square)})

hash_castle_right(hash, side, color) == Xor(hash, {CASTLE_RIGHTS_ZOBRIST(side, color)})

hash_ep(hash, square) == Xor(hash, {EN_PASSANT_ZOBRIST(File_of(square))})

hash_toggle_turn(hash) == Xor(hash, {TURN_ZOBRIST})

\* --------------------------------------------------------------------------
\* Piece, Move, CastlingRights
\* --------------------------------------------------------------------------
Piece_new(kind, color) == [kind |-> kind, color |-> color]

Quiet(start, end, moving) ==
    [kind |-> "Quiet", start |-> start, end |-> end, moving |-> moving, side |-> "None", target |-> "None"]

Capture(start, end, moving) ==
    [kind |-> "Capture", start |-> start, end |-> end, moving |-> moving, side |-> "None", target |-> "None"]

Castle(start, end, side) ==
    [kind |-> "Castle", start |-> start, end |-> end, moving |-> "None", side |-> side, target |-> "None"]

DoublePawnPush(start, end) ==
    [kind |-> "DoublePawnPush", start |-> start, end |-> end, moving |-> "None", side |-> "None", target |-> "None"]

EnPassant(start, end) ==
    [kind |-> "EnPassant", start |-> start, end |-> end, moving |-> "None", side |-> "None", target |-> "None"]

Promote(start, end, target) ==
    [kind |-> "Promote", start |-> start, end |-> end, moving |-> "None", side |-> "None", target |-> target]

PromoteCapture(start, end, target) ==
    [kind |-> "PromoteCapture", start |-> start, end |-> end, moving |-> "None", side |-> "None", target |-> target]

CastlingRights_new == {}

CastlingRights_is_set(rights, side, color) == <<side, color>> \in rights

CastlingRights_set(rights, side, color) == rights \cup {<<side, color>>}

CastlingRights_unset(rights, side, color) == rights \ {<<side, color>>}

\* --------------------------------------------------------------------------
\* ChessBoard: queries
\* --------------------------------------------------------------------------
query(board, kind, color) == board.piece_bbs[kind] \cap board.color_bbs[color]

color_occupancy(board, color) == board.color_bbs[color]

occupancy(board) == color_occupancy(board, "White") \cup color_occupancy(board, "Black")

\* Option<Piece> as a set with at most one element
piece_at(board, square) ==
    IF square \notin board.color_bbs["White"] /\ square \notin board.color_bbs["Black"]
    THEN {}
    ELSE LET color == IF square \in board.color_bbs["White"] THEN "White" ELSE "Black"
             pnr == board.piece_bbs["Pawn"] \cup board.piece_bbs["Knight"] \cup board.piece_bbs["Rook"]
             kind == IF square \in pnr
                     THEN (IF square \in board.piece_bbs["Pawn"] THEN "Pawn"
                           ELSE IF square \in board.piece_bbs["Knight"] THEN "Knight"
                           ELSE "Rook")
                     ELSE (IF square \in board.piece_bbs["Bishop"] THEN "Bishop"
                           ELSE IF square \in board.piece_bbs["Queen"] THEN "Queen"
                           ELSE "King")
         IN  {Piece_new(kind, color)}

unwrap(option) == CHOOSE x \in option : TRUE

get_king_square(board, color) == b_scan_forward(query(board, "King", color))

is_attacked(board, square, by) ==
    LET us == Not(by)
    IN  \/ overlaps(query(board, "Pawn", by), get_pawn_attacks(square, us))
        \/ overlaps(query(board, "Knight", by), get_knight_attacks(square))
        \/ overlaps(query(board, "King", by), get_king_attacks(square))
        \/ overlaps(query(board, "Bishop", by) \cup query(board, "Queen", by),
                    get_bishop_attacks(square, occupancy(board)))
        \/ overlaps(query(board, "Rook", by) \cup query(board, "Queen", by),
                    get_rook_attacks(square, occupancy(board)))

footprint(board) ==
    [piece_bbs |-> board.piece_bbs, color_bbs |-> board.color_bbs,
     castling_rights |-> board.castling_rights, en_passant |-> board.en_passant,
     turn |-> board.turn, hash |-> board.hash]

\* --------------------------------------------------------------------------
\* ChessBoard: private mutators
\* --------------------------------------------------------------------------
insert(board, square, piece) ==
    [board EXCEPT !.piece_bbs[piece.kind] = @ \cup {square},
                  !.color_bbs[piece.color] = @ \cup {square},
                  !.hash = hash_piece(@, square, piece)]

remove(board, square) ==
    LET piece == unwrap(piece_at(board, square))
    IN  [board EXCEPT !.piece_bbs[piece.kind] = Xor(@, {square}),
                      !.color_bbs[piece.color] = Xor(@, {square}),
                      !.hash = hash_piece(@, square, piece)]

\* move_piece that sets the end square and leaves the start square set
move_piece_copying(board, start, end, piece) ==
    [board EXCEPT !.piece_bbs[piece.kind] = @ \cup {end},
                  !.color_bbs[piece.color] = @ \cup {end},
                  !.hash = hash_piece(hash_piece(@, start, piece), end, piece)]

move_piece(board, start, end, piece) ==
    [board EXCEPT !.piece_bbs[piece.kind] = Xor(@, {start} \cup {end}),
                  !.color_bbs[piece.color] = Xor(@, {start} \cup {end}),
                  !.hash = hash_piece(hash_piece(@, start, piece), end, piece)]

toggle_turn(board) ==
    [board EXCEPT !.turn = Not(@), !.hash = hash_toggle_turn(@)]

unset_castle_right(board, side, color) ==
    IF CastlingRights_is_set(board.castling_rights, side, color)
    THEN [board EXCEPT !.castling_rights = CastlingRights_unset(@, side, color),
                       !.hash = hash_castle_right(@, side, color)]
    ELSE board

unset_color_rights(board, color) ==
    unset_castle_right(unset_castle_right(board, "Kingside", color), "Queenside", color)

set_ep(board, square) ==
    [board EXCEPT !.en_passant = {square}, !.hash = hash_ep(@, square)]

\* clear_ep that leaves the en passant square and the hash as they are
clear_ep_never(board) == board

clear_ep(board) ==
    IF board.en_passant # {}
    THEN [board EXCEPT !.hash = hash_ep(@, unwrap(board.en_passant)), !.en_passant = {}]
    ELSE board

calculate_pinned(board) ==
    LET us == board.turn
        them == Not(board.turn)
        friendly == color_occupancy(board, us)
        king_sq == get_king_square(board, us)
        enemy_rooks == query(board, "Rook", them) \cup query(board, "Queen", them)
        enemy_bishops == query(board, "Bishop", them) \cup query(board, "Queen", them)
        rook_pinners == enemy_rooks \cap get_ghost_rook(king_sq, occupancy(board), friendly)
        bishop_pinners == enemy_bishops \cap get_ghost_bishop(king_sq, occupancy(board), friendly)
        pinners == rook_pinners \cup bishop_pinners
    IN  [board EXCEPT !.pinned =
            UNION {friendly \cap get_direct_connection(pinner_sq, king_sq) : pinner_sq \in pinners}]

\* calculate_checkers without the look for pawn checkers
calculate_checkers_by_pieces(board) ==
    LET us == board.turn
        them == Not(board.turn)
        king_sq == get_king_square(board, us)
    IN  [board EXCEPT !.checkers =
            (query(board, "Knight", them) \cap get_knight_attacks(king_sq))
            \cup ((query(board, "Bishop", them) \cup query(board, "Queen", them))
                    \cap get_bishop_attacks(king_sq, occupancy(board)))
            \cup ((query(board, "Rook", them) \cup query(board, "Queen", them))
                    \cap get_rook_attacks(king_sq, occupancy(board)))]

calculate_checkers(board) ==
    LET us == board.turn
        them == Not(board.turn)
        king_sq == get_king_square(board, us)
    IN  [board EXCEPT !.checkers =
            (query(board, "Pawn", them) \cap get_pawn_attacks(king_sq, us))
            \cup (query(board, "Knight", them) \cap get_knight_attacks(king_sq))
            \cup ((query(board, "Bishop", them) \cup query(board, "Queen", them))
                    \cap get_bishop_attacks(king_sq, occupancy(board)))
            \cup ((query(board, "Rook", them) \cup query(board, "Queen", them))
                    \cap get_rook_attacks(king_sq, occupancy(board)))]

calculate_extra_data(board) == calculate_checkers(calculate_pinned(board))

\* --------------------------------------------------------------------------
\* ChessBoard::make_move
\* --------------------------------------------------------------------------
\* the (us, start) match of the Quiet and Capture arms
unset_moved_rook_right(board, us, start) ==
    CASE us = "Black" /\ start = A8 -> unset_castle_right(board, "Queenside", us)
      [] us = "Black" /\ start = H8 -> unset_castle_right(board, "Kingside", us)
      [] us = "White" /\ start = A1 -> unset_castle_right(board, "Queenside", us)
      [] us = "White" /\ start = H1 -> unset_castle_right(board, "Kingside", us)
      [] OTHER -> board

\* the (us, end) match that forgets the captured rook's right
unset_captured_rook_right_never(board, us, end) == board

\* the (us, end) match of the Capture and PromoteCapture arms
unset_captured_rook_right(board, us, end) ==
    LET them == Not(us)
    IN  CASE us = "Black" /\ end = A1 -> unset_castle_right(board, "Queenside", them)
          [] us = "Black" /\ end = H1 -> unset_castle_right(board, "Kingside", them)
          [] us = "White" /\ end = A8 -> unset_castle_right(board, "Queenside", them)
          [] us = "White" /\ end = H8 -> unset_castle_right(board, "Kingside", them)
          [] OTHER -> board

\* the Quiet and Capture arms keeping the rights of a king that moves
unset_mover_rights_of_rooks(board, us, start, moving) ==
    IF moving = "Rook" THEN unset_moved_rook_right(board, us, start) ELSE board

unset_mover_rights(board, us, start, moving) ==
    IF moving = "King" THEN unset_color_rights(board, us)
    ELSE IF moving = "Rook" THEN unset_moved_rook_right(board, us, start)
    ELSE board

castle_rook_squares(us, side) ==
    CASE us = "Black" /\ side = "Queenside" -> <<A8, D8>>
      [] us = "Black" /\ side = "Kingside" -> <<H8, F8>>
      [] us = "White" /\ side = "Queenside" -> <<A1, D1>>
      [] us = "White" /\ side = "Kingside" -> <<H1, F1>>

\* the match on the move kind: the board after the arm
make_move_arm(board, us, mv) ==
    CASE mv.kind = "Quiet" ->
            move_piece(unset_mover_rights(board, us, mv.start, mv.moving),
                       mv.start, mv.end, Piece_new(mv.moving, us))
      [] mv.kind = "Capture" ->
            LET b1 == unset_mover_rights(board, us, mv.start, mv.moving)
                b2 == unset_captured_rook_right(b1, us, mv.end)
                b3 == remove(b2, mv.end)
            IN  move_piece(b3, mv.start, mv.end, Piece_new(mv.moving, us))
      [] mv.kind = "Castle" ->
            LET rook == castle_rook_squares(us, mv.side)
                b1 == move_piece(board, rook[1], rook[2], Piece_new("Rook", us))
                b2 == move_piece(b1, mv.start, mv.end, Piece_new("King", us))
            IN  unset_color_rights(b2, us)
      [] mv.kind = "DoublePawnPush" ->
            LET b1 == IF us = "White" THEN set_ep(board, mv.start + 8)
                      ELSE set_ep(board, mv.start - 8)
            IN  move_piece(b1, mv.start, mv.end, Piece_new("Pawn", us))
      [] mv.kind = "EnPassant" ->
            LET b1 == IF us = "White" THEN remove(board, mv.end - 8)
                      ELSE remove(board, mv.end + 8)
            IN  move_piece(b1, mv.start, mv.end, Piece_new("Pawn", us))
      [] mv.kind = "Promote" ->
            insert(remove(board, mv.start), mv.end, Piece_new(mv.target, us))
      [] mv.kind = "PromoteCapture" ->
            LET b1 == unset_captured_rook_right(board, us, mv.end)
                b2 == remove(b1, mv.end)
                b3 == remove(b2, mv.start)
            IN  insert(b3, mv.end, Piece_new(mv.target, us))

\* reset_halfmoves after a match whose Quiet arm never requests the reset
reset_halfmoves_but_quiet(mv) ==
    mv.kind \in {"Capture", "DoublePawnPush", "EnPassant", "Promote", "PromoteCapture"}

\* reset_halfmoves after the match
reset_halfmoves(mv) ==
    \/ mv.kind = "Quiet" /\ mv.moving = "Pawn"
    \/ mv.kind \in {"Capture", "DoublePawnPush", "EnPassant", "Promote", "PromoteCapture"}

\* half_move_clock is a u8
next_half_move_clock(clock, mv) ==
    IF reset_halfmoves(mv) THEN 0 ELSE (clock + 1) % 256

make_move(board, mv) ==
    LET us == board.turn
        b1 == toggle_turn(clear_ep(board))
        b2 == make_move_arm(b1, us, mv)
        b3 == [b2 EXCEPT !.half_move_clock = next_half_move_clock(@, mv)]
    IN  calculate_extra_data(b3)

\* --------------------------------------------------------------------------
\* MoveList
\* --------------------------------------------------------------------------
PieceMoves_new(location, targets) == [location |-> location, targets |-> targets]

MoveList_new == << >>

\* push keeps only pieces that have at least one target
MoveList_push(moves, piece_moves) ==
    IF piece_moves.targets # {} THEN Append(moves, piece_moves) ELSE moves

MoveList_pop(moves) == SubSeq(moves, 1, Len(moves) - 1)

MoveList_back(moves) == moves[Len(moves)]

\* `for sq in bitboard`: lowest square first
SquareSeq == [i \in 1 .. 64 |-> i - 1]

BitBoard_iter(bb) == SelectSeq(SquareSeq, LAMBDA s : s \in bb)

\* --------------------------------------------------------------------------
\* generator.rs
\* --------------------------------------------------------------------------
is_square_attacked_with_occupancy(square, occ, by, chessboard) ==
    \/ query(chessboard, "Pawn", by) \cap get_pawn_attacks(square, Not(by)) # {}
    \/ query(chessboard, "Knight", by) \cap get_knight_attacks(square) # {}
    \/ query(chessboard, "King", by) \cap get_king_attacks(square) # {}
    \/ (query(chessboard, "Bishop", by) \cup query(chessboard, "Queen", by))
            \cap get_bishop_attacks(square, occ) # {}
    \/ (query(chessboard, "Rook", by) \cup query(chessboard, "Queen", by))
            \cap get_rook_attacks(square, occ) # {}

is_square_attacked(square, by, chessboard) ==
    is_square_attacked_with_occupancy(square, occupancy(chessboard), by, chessboard)

\* get_direct_connection(king_sq, checker_sq) | checkers
defending_mask(chessboard) ==
    LET king_sq == get_king_square(chessboard, chessboard.turn)
        checker_sq == b_scan_forward(chessboard.checkers)
    IN  get_direct_connection(king_sq, checker_sq) \cup chessboard.checkers

\* generate_pawn_attacks without the test of the king's lines after an en
\* passant capture
generate_pawn_attacks_exposing(CAPTURES_ONLY, IN_CHECK, chessboard, square) ==
    LET us == chessboard.turn
        them == Not(chessboard.turn)
        king_sq == get_king_square(chessboard, us)
        en_passant_bb == chessboard.en_passant
        start_rank == IF us = "White" THEN Second ELSE Seventh
        is_pinned == square \in chessboard.pinned
        is_pinned_forward == is_pinned /\ File_of(king_sq) = File_of(square)
        forward == IF us = "White" THEN up({square}) ELSE down({square})
        double == IF us = "White" THEN up(forward) ELSE down(forward)
        pushes ==
            IF (~CAPTURES_ONLY \/ IN_CHECK) /\ (~is_pinned \/ is_pinned_forward)
               /\ ~overlaps(forward, occupancy(chessboard))
            THEN forward \cup
                 (IF Rank_of(square) = start_rank /\ ~overlaps(double, occupancy(chessboard))
                  THEN double ELSE {})
            ELSE {}
        attacks == IF is_pinned
                   THEN get_pawn_attacks(square, us) \cap get_connection_axis(king_sq, square)
                   ELSE get_pawn_attacks(square, us)
        captures == IF ~is_pinned_forward THEN attacks \cap color_occupancy(chessboard, them) ELSE {}
        en_passanted == IF us = "White" THEN down(en_passant_bb) ELSE up(en_passant_bb)
        new_occupancy == Xor(occupancy(chessboard), {square} \cup en_passant_bb \cup en_passanted)
        enemy_bishops == query(chessboard, "Bishop", them) \cup query(chessboard, "Queen", them)
        enemy_rooks == query(chessboard, "Rook", them) \cup query(chessboard, "Queen", them)
        en_passant_move ==
            IF ~is_pinned_forward /\ overlaps(attacks, en_passant_bb)
            THEN en_passant_bb ELSE {}
        targets == pushes \cup captures
    IN  (IF IN_CHECK THEN targets \cap defending_mask(chessboard) ELSE targets) \cup en_passant_move

generate_pawn_attacks_for(CAPTURES_ONLY, IN_CHECK, chessboard, square) ==
    LET us == chessboard.turn
        them == Not(chessboard.turn)
        king_sq == get_king_square(chessboard, us)
        en_passant_bb == chessboard.en_passant
        start_rank == IF us = "White" THEN Second ELSE Seventh
        is_pinned == square \in chessboard.pinned
        is_pinned_forward == is_pinned /\ File_of(king_sq) = File_of(square)
        forward == IF us = "White" THEN up({square}) ELSE down({square})
        double == IF us = "White" THEN up(forward) ELSE down(forward)
        pushes ==
            IF (~CAPTURES_ONLY \/ IN_CHECK) /\ (~is_pinned \/ is_pinned_forward)
               /\ ~overlaps(forward, occupancy(chessboard))
            THEN forward \cup
                 (IF Rank_of(square) = start_rank /\ ~overlaps(double, occupancy(chessboard))
                  THEN double ELSE {})
            ELSE {}
        attacks == IF is_pinned
                   THEN get_pawn_attacks(square, us) \cap get_connection_axis(king_sq, square)
                   ELSE get_pawn_attacks(square, us)
        captures == IF ~is_pinned_forward THEN attacks \cap color_occupancy(chessboard, them) ELSE {}
        en_passanted == IF us = "White" THEN down(en_passant_bb) ELSE up(en_passant_bb)
        new_occupancy == Xor(occupancy(chessboard), {square} \cup en_passant_bb \cup en_passanted)
        enemy_bishops == query(chessboard, "Bishop", them) \cup query(chessboard, "Queen", them)
        enemy_rooks == query(chessboard, "Rook", them) \cup query(chessboard, "Queen", them)
        en_passant_move ==
            IF ~is_pinned_forward /\ overlaps(attacks, en_passant_bb)
               /\ ~overlaps(enemy_rooks, get_rook_attacks(king_sq, new_occupancy))
               /\ ~overlaps(enemy_bishops, get_bishop_attacks(king_sq, new_occupancy))
            THEN en_passant_bb ELSE {}
        targets == pushes \cup captures
    IN  (IF IN_CHECK THEN targets \cap defending_mask(chessboard) ELSE targets) \cup en_passant_move

generate_knight_attacks_for(CAPTURES_ONLY, IN_CHECK, CHECKED_PIN, chessboard, square) ==
    LET us == chessboard.turn
        them == Not(chessboard.turn)
        attacks == get_knight_attacks(square)
    IN  IF ~CHECKED_PIN /\ square \in chessboard.pinned THEN {}
        ELSE IF IN_CHECK THEN attacks \cap defending_mask(chessboard)
        ELSE IF CAPTURES_ONLY THEN attacks \cap color_occupancy(chessboard, them)
        ELSE attacks \ color_occupancy(chessboard, us)

\* the three-way restriction shared by generate_bishop_attacks and generate_rook_attacks
restrict_slider(CAPTURES_ONLY, IN_CHECK, chessboard, square, attacks) ==
    LET us == chessboard.turn
        them == Not(chessboard.turn)
        king_sq == get_king_square(chessboard, us)
        pinned_axis == get_connection_axis(king_sq, square)
        base == IF IN_CHECK THEN attacks \cap defending_mask(chessboard)
                ELSE IF CAPTURES_ONLY THEN attacks \cap color_occupancy(chessboard, them)
                ELSE attacks \ color_occupancy(chessboard, us)
    IN  IF square \in chessboard.pinned THEN base \cap pinned_axis ELSE base

generate_bishop_attacks_for(CAPTURES_ONLY, IN_CHECK, chessboard, square) ==
    restrict_slider(CAPTURES_ONLY, IN_CHECK, chessboard, square,
                    get_bishop_attacks(square, occupancy(chessboard)))

generate_rook_attacks_for(CAPTURES_ONLY, IN_CHECK, chessboard, square) ==
    restrict_slider(CAPTURES_ONLY, IN_CHECK, chessboard, square,
                    get_rook_attacks(square, occupancy(chessboard)))

generate_queen_attacks_for(CAPTURES_ONLY, IN_CHECK, chessboard, square) ==
    generate_bishop_attacks_for(CAPTURES_ONLY, IN_CHECK, chessboard, square)
        \cup generate_rook_attacks_for(CAPTURES_ONLY, IN_CHECK, chessboard, square)

\* generate_castle_moves with the attack tests on the king's path left out
generate_castle_moves_unattacked(IN_CHECK, chessboard) ==
    LET us == chessboard.turn
        ks_empty == IF us = "White" THEN {F1, G1} ELSE {F8, G8}
        qs_empty == IF us = "White" THEN {B1, C1, D1} ELSE {B8, C8, D8}
    IN  IF IN_CHECK THEN {}
        ELSE (IF /\ CastlingRights_is_set(chessboard.castling_rights, "Kingside", us)
                 /\ ~overlaps(ks_empty, occupancy(chessboard))
              THEN (IF us = "White" THEN {G1} ELSE {G8}) ELSE {})
             \cup
             (IF /\ CastlingRights_is_set(chessboard.castling_rights, "Queenside", us)
                 /\ ~overlaps(qs_empty, occupancy(chessboard))
              THEN (IF us = "White" THEN {C1} ELSE {C8}) ELSE {})

\* generate_castle_moves with the knight's file of the queenside tested for
\* attacks as well
generate_castle_moves_b_checked(IN_CHECK, chessboard) ==
    LET us == chessboard.turn
        them == Not(chessboard.turn)
        ks_empty == IF us = "White" THEN {F1, G1} ELSE {F8, G8}
        qs_empty == IF us = "White" THEN {B1, C1, D1} ELSE {B8, C8, D8}
        kingside ==
            IF /\ CastlingRights_is_set(chessboard.castling_rights, "Kingside", us)
               /\ ~overlaps(ks_empty, occupancy(chessboard))
               /\ \A square \in ks_empty : ~is_square_attacked(square, them, chessboard)
            THEN (IF us = "White" THEN {G1} ELSE {G8}) ELSE {}
        queenside ==
            IF /\ CastlingRights_is_set(chessboard.castling_rights, "Queenside", us)
               /\ ~overlaps(qs_empty, occupancy(chessboard))
               /\ \A square \in qs_empty : ~is_square_attacked(square, them, chessboard)
            THEN (IF us = "White" THEN {C1} ELSE {C8}) ELSE {}
    IN  IF IN_CHECK THEN {} ELSE kingside \cup queenside

generate_castle_moves(IN_CHECK, chessboard) ==
    LET us == chessboard.turn
        them == Not(chessboard.turn)
        ks_empty == IF us = "White" THEN {F1, G1} ELSE {F8, G8}
        ks_target == IF us = "White" THEN {G1} ELSE {G8}
        qs_un_checked == IF us = "White" THEN {C1, D1} ELSE {C8, D8}
        qs_empty == IF us = "White" THEN {B1, C1, D1} ELSE {B8, C8, D8}
        qs_target == IF us = "White" THEN {C1} ELSE {C8}
        kingside ==
            IF /\ CastlingRights_is_set(chessboard.castling_rights, "Kingside", us)
               /\ ~overlaps(ks_empty, occupancy(chessboard))
               /\ \A square \in ks_empty : ~is_square_attacked(square, them, chessboard)
            THEN ks_target ELSE {}
        queenside ==
            IF /\ CastlingRights_is_set(chessboard.castling_rights, "Queenside", us)
               /\ ~overlaps(qs_empty, occupancy(chessboard))
               /\ \A square \in qs_un_checked : ~is_square_attacked(square, them, chessboard)
            THEN qs_target ELSE {}
    IN  IF IN_CHECK THEN {} ELSE kingside \cup queenside

\* generate_king_attacks without the test that the target square is safe
generate_king_attacks_unsafe(CAPTURES_ONLY, IN_CHECK, chessboard, square) ==
    get_king_attacks(square) \ color_occupancy(chessboard, chessboard.turn)

generate_king_attacks_for(CAPTURES_ONLY, IN_CHECK, chessboard, square) ==
    LET us == chessboard.turn
        them == Not(chessboard.turn)
        attacks == IF CAPTURES_ONLY /\ ~IN_CHECK
                   THEN get_king_attacks(square) \cap color_occupancy(chessboard, them)
                   ELSE get_king_attacks(square) \ color_occupancy(chessboard, us)
        no_king_occupancy == Xor(occupancy(chessboard), {square})
        safe == {target \in attacks :
                    ~is_square_attacked_with_occupancy(target, no_king_occupancy, them, chessboard)}
    IN  IF ~CAPTURES_ONLY THEN safe \cup generate_castle_moves(IN_CHECK, chessboard) ELSE safe

\* one generate_<piece>_moves loop: push a PieceMoves for each square of `pieces`
RECURSIVE push_each(_, _, _, _)
push_each(moves, squares, i, attacks) ==
    IF i > Len(squares) THEN moves
    ELSE push_each(MoveList_push(moves, PieceMoves_new(squares[i], attacks[squares[i]])),
                   squares, i + 1, attacks)

generate_pawn_moves(CAPTURES_ONLY, IN_CHECK, moves, chessboard) ==
    push_each(moves, BitBoard_iter(query(chessboard, "Pawn", chessboard.turn)), 1,
              [sq \in query(chessboard, "Pawn", chessboard.turn) |-> generate_pawn_attacks_for(CAPTURES_ONLY, IN_CHECK, chessboard, sq)])

generate_knight_moves(CAPTURES_ONLY, IN_CHECK, moves, chessboard) ==
    push_each(moves, BitBoard_iter(query(chessboard, "Knight", chessboard.turn) \ chessboard.pinned), 1,
              [sq \in query(chessboard, "Knight", chessboard.turn) \ chessboard.pinned |-> generate_knight_attacks_for(CAPTURES_ONLY, IN_CHECK, TRUE, chessboard, sq)])

generate_king_moves(CAPTURES_ONLY, IN_CHECK, moves, chessboard) ==
    LET king_sq == get_king_square(chessboard, chessboard.turn)
    IN  MoveList_push(moves, PieceMoves_new(king_sq,
            generate_king_attacks_for(CAPTURES_ONLY, IN_CHECK, chessboard, king_sq)))

generate_bishop_moves(CAPTURES_ONLY, IN_CHECK, moves, chessboard) ==
    push_each(moves, BitBoard_iter(query(chessboard, "Bishop", chessboard.turn)), 1,
              [sq \in query(chessboard, "Bishop", chessboard.turn) |-> generate_bishop_attacks_for(CAPTURES_ONLY, IN_CHECK, chessboard, sq)])

generate_rook_moves(CAPTURES_ONLY, IN_CHECK, moves, chessboard) ==
    push_each(moves, BitBoard_iter(query(chessboard, "Rook", chessboard.turn)), 1,
              [sq \in query(chessboard, "Rook", chessboard.turn) |-> generate_rook_attacks_for(CAPTURES_ONLY, IN_CHECK, chessboard, sq)])

generate_queen_moves(CAPTURES_ONLY, IN_CHECK, moves, chessboard) ==
    push_each(moves, BitBoard_iter(query(chessboard, "Queen", chessboard.turn)), 1,
              [sq \in query(chessboard, "Queen", chessboard.turn) |-> generate_queen_attacks_for(CAPTURES_ONLY, IN_CHECK, chessboard, sq)])

generate_all_pieces(CAPTURES_ONLY, IN_CHECK, chessboard) ==
    LET m1 == generate_pawn_moves(CAPTURES_ONLY, IN_CHECK, MoveList_new, chessboard)
        m2 == generate_knight_moves(CAPTURES_ONLY, IN_CHECK, m1, chessboard)
        m3 == generate_king_moves(CAPTURES_ONLY, IN_CHECK, m2, chessboard)
        m4 == generate_bishop_moves(CAPTURES_ONLY, IN_CHECK, m3, chessboard)
        m5 == generate_rook_moves(CAPTURES_ONLY, IN_CHECK, m4, chessboard)
    IN  generate_queen_moves(CAPTURES_ONLY, IN_CHECK, m5, chessboard)

\* generate_moves that generates every move in both modes
generate_moves_of_any_kind(CAPTURES_ONLY, chessboard) ==
    IF chessboard.checkers = {}
    THEN generate_all_pieces(FALSE, FALSE, chessboard)
    ELSE IF popcnt(chessboard.checkers) = 1
    THEN generate_all_pieces(FALSE, TRUE, chessboard)
    ELSE generate_king_moves(FALSE, TRUE, MoveList_new, chessboard)

generate_moves(CAPTURES_ONLY, chessboard) ==
    IF chessboard.checkers = {}
    THEN generate_all_pieces(CAPTURES_ONLY, FALSE, chessboard)
    ELSE IF popcnt(chessboard.checkers) = 1
    THEN generate_all_pieces(CAPTURES_ONLY, TRUE, chessboard)
    ELSE generate_king_moves(FALSE, TRUE, MoveList_new, chessboard)

\* the match on piece.kind of generate_square_moves
generate_square_attacks(CAPTURES_ONLY, IN_CHECK, chessboard, square, kind) ==
    CASE kind = "Pawn" -> generate_pawn_attacks_for(CAPTURES_ONLY, IN_CHECK, chessboard, square)
      [] kind = "Knight" -> generate_knight_attacks_for(CAPTURES_ONLY, IN_CHECK, FALSE, chessboard, square)
      [] kind = "Bishop" -> generate_bishop_attacks_for(CAPTURES_ONLY, IN_CHECK, chessboard, square)
      [] kind = "Rook" -> generate_rook_attacks_for(CAPTURES_ONLY, IN_CHECK, chessboard, square)
      [] kind = "Queen" -> generate_queen_attacks_for(CAPTURES_ONLY, IN_CHECK, chessboard, square)
      [] kind = "King" -> generate_king_attacks_for(CAPTURES_ONLY, IN_CHECK, chessboard, square)

\* generate_square_moves that takes the piece for one of the side to move
generate_square_moves_of_any_color(CAPTURES_ONLY, chessboard, square) ==
    IF piece_at(chessboard, square) = {} THEN EMPTY
    ELSE IF popcnt(chessboard.checkers) > 1
    THEN (IF unwrap(piece_at(chessboard, square)).kind # "King" THEN EMPTY
          ELSE generate_king_attacks_for(FALSE, TRUE, chessboard,
                                         get_king_square(chessboard, chessboard.turn)))
    ELSE generate_square_attacks(CAPTURES_ONLY, chessboard.checkers # {}, chessboard, square,
                                 unwrap(piece_at(chessboard, square)).kind)

generate_square_moves(CAPTURES_ONLY, chessboard, square) ==
    IF piece_at(chessboard, square) = {} THEN EMPTY
    ELSE IF unwrap(piece_at(chessboard, square)).color # chessboard.turn THEN EMPTY
    ELSE IF popcnt(chessboard.checkers) > 1
    THEN (IF unwrap(piece_at(chessboard, square)).kind # "King" THEN EMPTY
          ELSE generate_king_attacks_for(FALSE, TRUE, chessboard,
                                         get_king_square(chessboard, chessboard.turn)))
    ELSE generate_square_attacks(CAPTURES_ONLY, chessboard.checkers # {}, chessboard, square,
                                 unwrap(piece_at(chessboard, square)).kind)

\* --------------------------------------------------------------------------
\* movegen.rs: MoveGen and its iterator
\* --------------------------------------------------------------------------
create_promotion_move_unchecked(chessboard, start, end, target) ==
    LET us == chessboard.turn
        them == Not(chessboard.turn)
        moving == unwrap(piece_at(chessboard, start)).kind
        start_rank == IF us = "White" THEN Second ELSE Seventh
        double_rank == IF us = "White" THEN Fourth ELSE Fifth
        promote_rank == IF us = "White" THEN Eighth ELSE First
        castle_start == IF us = "White" THEN E1 ELSE E8
        ks_end == IF us = "White" THEN G1 ELSE G8
        qs_end == IF us = "White" THEN C1 ELSE C8
        is_capture == end \in color_occupancy(chessboard, them)
        plain == IF is_capture THEN Capture(start, end, moving) ELSE Quiet(start, end, moving)
    IN  IF moving = "Pawn"
        THEN IF Rank_of(start) = start_rank /\ Rank_of(end) = double_rank
             THEN DoublePawnPush(start, end)
             ELSE IF chessboard.en_passant = {end}
             THEN EnPassant(start, end)
             ELSE IF Rank_of(end) = promote_rank
             THEN (IF is_capture THEN PromoteCapture(start, end, target)
                   ELSE Promote(start, end, target))
             ELSE plain
        ELSE IF moving = "King"
        THEN IF start = castle_start /\ end = ks_end THEN Castle(start, end, "Kingside")
             ELSE IF start = castle_start /\ end = qs_end THEN Castle(start, end, "Queenside")
             ELSE plain
        ELSE plain

MoveGen_legal(chessboard) ==
    [moves |-> generate_moves(FALSE, chessboard), promote_status |-> "None"]

MoveGen_piece_legal(chessboard, square) == generate_square_moves(FALSE, chessboard, square)

MoveGen_captures_only(chessboard) ==
    [moves |-> generate_moves(TRUE, chessboard), promote_status |-> "None"]

\* Iterator::next whose promotion sequence goes from the bishop straight to
\* the queen
MoveGen_next_skipping_rook(gen, chessboard) ==
    IF Len(gen.moves) = 0 THEN [item |-> {}, gen |-> gen]
    ELSE
    LET popped == IF MoveList_back(gen.moves).targets = {} THEN MoveList_pop(gen.moves) ELSE gen.moves
    IN  IF Len(popped) = 0 THEN [item |-> {}, gen |-> [gen EXCEPT !.moves = popped]]
        ELSE
        LET n == Len(popped)
            start == popped[n].location
            end == b_scan_forward(popped[n].targets)
            them == Not(chessboard.turn)
            consumed == [popped EXCEPT ![n].targets = Xor(@, {end})]
        IN  IF gen.promote_status # "None"
            THEN LET target == CASE gen.promote_status = "PromoteBishop" -> "Bishop"
                                 [] gen.promote_status = "PromoteRook" -> "Rook"
                                 [] gen.promote_status = "PromoteQueen" -> "Queen"
                     status == CASE gen.promote_status = "PromoteBishop" -> "PromoteQueen"
                                 [] gen.promote_status = "PromoteRook" -> "PromoteQueen"
                                 [] gen.promote_status = "PromoteQueen" -> "None"
                     left_moves == IF gen.promote_status = "PromoteQueen" THEN consumed ELSE popped
                 IN  [item |-> {IF end \in color_occupancy(chessboard, them)
                                THEN PromoteCapture(start, end, target)
                                ELSE Promote(start, end, target)},
                      gen |-> [moves |-> left_moves, promote_status |-> status]]
            ELSE LET mv == create_promotion_move_unchecked(chessboard, start, end, "Knight")
                 IN  IF mv.kind \in {"Promote", "PromoteCapture"}
                     THEN [item |-> {mv}, gen |-> [moves |-> popped, promote_status |-> "PromoteBishop"]]
                     ELSE [item |-> {mv}, gen |-> [moves |-> consumed, promote_status |-> "None"]]

\* Iterator::next: [item |-> Option<Move>, gen |-> the MoveGen afterwards]
MoveGen_next(gen, chessboard) ==
    IF Len(gen.moves) = 0 THEN [item |-> {}, gen |-> gen]
    ELSE
    LET popped == IF MoveList_back(gen.moves).targets = {} THEN MoveList_pop(gen.moves) ELSE gen.moves
    IN  IF Len(popped) = 0 THEN [item |-> {}, gen |-> [gen EXCEPT !.moves = popped]]
        ELSE
        LET n == Len(popped)
            start == popped[n].location
            end == b_scan_forward(popped[n].targets)
            them == Not(chessboard.turn)
            consumed == [popped EXCEPT ![n].targets = Xor(@, {end})]
        IN  IF gen.promote_status # "None"
            THEN LET target == CASE gen.promote_status = "PromoteBishop" -> "Bishop"
                                 [] gen.promote_status = "PromoteRook" -> "Rook"
                                 [] gen.promote_status = "PromoteQueen" -> "Queen"
                     status == CASE gen.promote_status = "PromoteBishop" -> "PromoteRook"
                                 [] gen.promote_status = "PromoteRook" -> "PromoteQueen"
                                 [] gen.promote_status = "PromoteQueen" -> "None"
                     left_moves == IF gen.promote_status = "PromoteQueen" THEN consumed ELSE popped
                 IN  [item |-> {IF end \in color_occupancy(chessboard, them)
                                THEN PromoteCapture(start, end, target)
                                ELSE Promote(start, end, target)},
                      gen |-> [moves |-> left_moves, promote_status |-> status]]
            ELSE LET mv == create_promotion_move_unchecked(chessboard, start, end, "Knight")
                 IN  IF mv.kind \in {"Promote", "PromoteCapture"}
                     THEN [item |-> {mv}, gen |-> [moves |-> popped, promote_status |-> "PromoteBishop"]]
                     ELSE [item |-> {mv}, gen |-> [moves |-> consumed, promote_status |-> "None"]]

\* to_vec: vec.extend(self)
RECURSIVE MoveGen_to_vec(_, _)
MoveGen_to_vec_with(r, chessboard) ==
    IF r.item = {} THEN << >>
    ELSE <<unwrap(r.item)>> \o MoveGen_to_vec(r.gen, chessboard)

MoveGen_to_vec(gen, chessboard) ==
    MoveGen_to_vec_with(MoveGen_next(gen, chessboard), chessboard)

\* --------------------------------------------------------------------------
\* Counting: MoveList::count_moves, MoveGen::count_legal_moves, MoveGen::perft
\* --------------------------------------------------------------------------
\* the body of the counting loop that counts a promotion target once
count_piece_moves_flat(piece_moves, chessboard) == popcnt(piece_moves.targets)

\* the body of the counting loop: what one PieceMoves adds to the total
count_piece_moves(piece_moves, chessboard) ==
    LET moving == unwrap(piece_at(chessboard, piece_moves.location)).kind
        promote_rank == IF chessboard.turn = "White" THEN from_rank(Eighth) ELSE from_rank(First)
        promotions == piece_moves.targets \cap promote_rank
        normal == piece_moves.targets \ promotions
    IN  IF moving = "Pawn" THEN 4 * popcnt(promotions) + popcnt(normal)
        ELSE popcnt(piece_moves.targets)

\* for i in 0..self.length (i counts from 1 here)
RECURSIVE MoveList_count_moves(_, _, _, _)
MoveList_count_moves(moves, chessboard, i, total) ==
    IF i > Len(moves) THEN total
    ELSE MoveList_count_moves(moves, chessboard, i + 1,
                              total + count_piece_moves(moves[i], chessboard))

count_legal_moves(chessboard) ==
    MoveList_count_moves(generate_moves(FALSE, chessboard), chessboard, 1, 0)

MoveGen_count_moves(gen, chessboard) == MoveList_count_moves(gen.moves, chessboard, 1, 0)

\* size_hint: the lower bound and the optional upper bound
MoveGen_size_hint(gen, chessboard) ==
    <<MoveGen_count_moves(gen, chessboard), {MoveGen_count_moves(gen, chessboard)}>>

\* perft; perft_loop is its `for mv in movegen` from the i-th move on
RECURSIVE perft(_, _)
RECURSIVE perft_loop(_, _, _, _, _)
perft_loop(moves, chessboard, depth, i, total_nodes) ==
    IF i > Len(moves) THEN total_nodes
    ELSE perft_loop(moves, chessboard, depth, i + 1,
                    total_nodes + perft(make_move(chessboard, moves[i]), depth - 1))

perft(chessboard, depth) ==
    IF depth = 0 THEN 1
    ELSE IF depth = 1 THEN count_legal_moves(chessboard)
    ELSE perft_loop(MoveGen_to_vec(MoveGen_legal(chessboard), chessboard), chessboard, depth, 1, 0)

\* --------------------------------------------------------------------------
\* BoardBuilder.  A Result is [err |-> "None", val |-> v] for Ok(v) and
\* [err |-> <error name>, val |-> <unused>] for Err.
\* --------------------------------------------------------------------------
Ok(v) == [err |-> "None", val |-> v]

Err(e, v) == [err |-> e, val |-> v]

BoardBuilder_new ==
    [piece_map |-> [sq \in SQUARES |-> {}],
     piece_bbs |-> [k \in PieceTypes |-> EMPTY],
     color_bbs |-> [c \in Colors |-> EMPTY],
     turn |-> {},
     castling_rights |-> CastlingRights_new,
     en_passant_square |-> {},
     hash |-> ZobristHash_new]

BoardBuilder_piece(builder, square, piece) ==
    IF piece.kind = "King" /\ (builder.piece_bbs["King"] \cap builder.color_bbs[piece.color]) # {}
    THEN Err("TwoKings", builder)
    ELSE IF piece.kind = "Pawn" /\ piece.color = "White" /\ Rank_of(square) = Eighth
    THEN Err("PawnOnLast", builder)
    ELSE IF piece.kind = "Pawn" /\ piece.color = "Black" /\ Rank_of(square) = First
    THEN Err("PawnOnLast", builder)
    ELSE IF builder.piece_map[square] # {}
    THEN Err("TwoPieces", builder)
    ELSE Ok([builder EXCEPT !.piece_map[square] = {piece},
                            !.piece_bbs[piece.kind] = @ \cup {square},
                            !.color_bbs[piece.color] = @ \cup {square},
                            !.hash = hash_piece(@, square, piece)])

BoardBuilder_turn(builder, color) ==
    IF builder.turn # {} THEN Err("TurnAlreadySet", builder)
    ELSE Ok([builder EXCEPT !.turn = {color},
                            !.hash = IF color = "Black" THEN hash_toggle_turn(@) ELSE @])

BoardBuilder_castle_right(builder, side, color) ==
    IF CastlingRights_is_set(builder.castling_rights, side, color)
    THEN Err("CastleRightAlreadySet", builder)
    ELSE Ok([builder EXCEPT !.castling_rights = CastlingRights_set(@, side, color),
                            !.hash = hash_castle_right(@, side, color)])

BoardBuilder_en_passant(builder, square) ==
    IF builder.en_passant_square # {} THEN Err("EnPassantAlreadySet", builder)
    ELSE Ok([builder EXCEPT !.en_passant_square = {square}, !.hash = hash_ep(@, square)])

\* the ChessBoard value from_builder assembles before it looks at checks
builder_board(board_builder) ==
    [piece_bbs |-> board_builder.piece_bbs,
     color_bbs |-> board_builder.color_bbs,
     castling_rights |-> board_builder.castling_rights,
     en_passant |-> {},
     turn |-> unwrap(board_builder.turn),
     pinned |-> EMPTY,
     checkers |-> EMPTY,
     hash |-> board_builder.hash,
     half_move_clock |-> 0]

\* the four castling-right checks of from_builder, in source order
invalid_castle_right(board_builder) ==
    LET pm == board_builder.piece_map
        rights == board_builder.castling_rights
    IN  \/ /\ CastlingRights_is_set(rights, "Kingside", "White")
           /\ (pm[E1] # {Piece_new("King", "White")} \/ pm[H1] # {Piece_new("Rook", "White")})
        \/ /\ CastlingRights_is_set(rights, "Queenside", "White")
           /\ (pm[E1] # {Piece_new("King", "White")} \/ pm[A1] # {Piece_new("Rook", "White")})
        \/ /\ CastlingRights_is_set(rights, "Kingside", "Black")
           /\ (pm[E8] # {Piece_new("King", "Black")} \/ pm[H8] # {Piece_new("Rook", "Black")})
        \/ /\ CastlingRights_is_set(rights, "Kingside", "Black")
           /\ (pm[E8] # {Piece_new("King", "Black")} \/ pm[A8] # {Piece_new("Rook", "Black")})

invalid_en_passant(board_builder) ==
    /\ board_builder.en_passant_square # {}
    /\ LET sq == unwrap(board_builder.en_passant_square)
           turn == unwrap(board_builder.turn)
       IN  IF turn = "White"
           THEN Rank_of(sq) # Sixth \/ board_builder.piece_map[sq - 8] # {Piece_new("Pawn", "Black")}
           ELSE Rank_of(sq) # Third \/ board_builder.piece_map[sq + 8] # {Piece_new("Pawn", "White")}

from_builder(board_builder) ==
    IF popcnt(board_builder.color_bbs["White"]) > 18 THEN Err("TooManyPieces", board_builder)
    ELSE IF popcnt(board_builder.color_bbs["Black"]) > 18 THEN Err("TooManyPieces", board_builder)
    ELSE IF board_builder.turn = {} THEN Err("TurnNotSet", board_builder)
    ELSE IF popcnt(board_builder.piece_bbs["King"]) # 2 THEN Err("MissingKing", board_builder)
    ELSE IF invalid_en_passant(board_builder) THEN Err("InvalidEnPassant", board_builder)
    ELSE IF invalid_castle_right(board_builder) THEN Err("InvalidCastleRight", board_builder)
    ELSE LET chessboard == builder_board(board_builder)
         IN  IF is_attacked(chessboard, get_king_square(chessboard, Not(chessboard.turn)), chessboard.turn)
             THEN Err("InactiveKingAttacked", board_builder)
             ELSE Ok(calculate_extra_data(chessboard))

\* --------------------------------------------------------------------------
\* ChessBoard::from_fen.  A FEN is given by its fields; the piece field is
\* the sequence of its characters, the en-passant field is << >> for "-" or
\* the two characters of the square, halfmoves is << >> when absent.
\* --------------------------------------------------------------------------
Piece_from_char(c) ==
    CASE c = "p" -> Piece_new("Pawn", "Black")
      [] c = "n" -> Piece_new("Knight", "Black")
      [] c = "b" -> Piece_new("Bishop", "Black")
      [] c = "r" -> Piece_new("Rook", "Black")
      [] c = "q" -> Piece_new("Queen", "Black")
      [] c = "k" -> Piece_new("King", "Black")
      [] c = "P" -> Piece_new("Pawn", "White")
      [] c = "N" -> Piece_new("Knight", "White")
      [] c = "B" -> Piece_new("Bishop", "White")
      [] c = "R" -> Piece_new("Rook", "White")
      [] c = "Q" -> Piece_new("Queen", "White")
      [] c = "K" -> Piece_new("King", "White")

PieceChars == {"p", "n", "b", "r", "q", "k", "P", "N", "B", "R", "Q", "K"}

to_digit == [c \in {"1", "2", "3", "4", "5", "6", "7", "8"} |->
                CASE c = "1" -> 1 [] c = "2" -> 2 [] c = "3" -> 3 [] c = "4" -> 4
                  [] c = "5" -> 5 [] c = "6" -> 6 [] c = "7" -> 7 [] c = "8" -> 8]

file_from_char == [c \in {"a", "b", "c", "d", "e", "f", "g", "h"} |->
                CASE c = "a" -> 0 [] c = "b" -> 1 [] c = "c" -> 2 [] c = "d" -> 3
                  [] c = "e" -> 4 [] c = "f" -> 5 [] c = "g" -> 6 [] c = "h" -> 7]

Square_from_string(str) == (to_digit[str[2]] - 1) * 8 + file_from_char[str[1]]

\* the loop over the characters of the piece field (square_idx is a u8)
RECURSIVE fen_load_pieces(_, _, _, _)
fen_load_pieces(builder, chars, i, square_idx) ==
    IF i > Len(chars) THEN Ok(builder)
    ELSE LET c == chars[i]
         IN  IF c \in PieceChars
             THEN IF square_idx > 63 THEN Err("InvalidPieceSection", builder)
                  ELSE LET r == BoardBuilder_piece(builder, square_idx, Piece_from_char(c))
                       IN  IF r.err # "None" THEN r
                           ELSE fen_load_pieces(r.val, chars, i + 1, (square_idx + 1) % 256)
             ELSE IF c \in DOMAIN to_digit
             THEN fen_load_pieces(builder, chars, i + 1, (square_idx + to_digit[c]) % 256)
             ELSE IF c = "/"
             THEN fen_load_pieces(builder, chars, i + 1, (square_idx + 256 - 16) % 256)
             ELSE Err("InvalidPieceSection", builder)

RECURSIVE fen_load_castling(_, _, _)
fen_load_castling(builder, chars, i) ==
    IF i > Len(chars) THEN Ok(builder)
    ELSE LET c == chars[i]
             r == CASE c = "K" -> BoardBuilder_castle_right(builder, "Kingside", "White")
                    [] c = "Q" -> BoardBuilder_castle_right(builder, "Queenside", "White")
                    [] c = "k" -> BoardBuilder_castle_right(builder, "Kingside", "Black")
                    [] c = "q" -> BoardBuilder_castle_right(builder, "Queenside", "Black")
                    [] OTHER -> Err("InvalidCastleRights", builder)
         IN  IF r.err # "None" THEN r ELSE fen_load_castling(r.val, chars, i + 1)

\* the sections of from_fen in source order; each takes the Result of the
\* sections before it and returns early on an error (the `?` of the code)
fen_halfmoves_section(fen, built) ==
    IF built.err # "None" THEN built
    ELSE IF fen.halfmoves = << >> THEN built
    ELSE IF fen.halfmoves[1] <= 100
    THEN Ok([built.val EXCEPT !.half_move_clock = fen.halfmoves[1]])
    ELSE Err("InvalidHalfMoveSection", built.val)

fen_build_section(fen, r) ==
    IF r.err # "None" THEN r ELSE fen_halfmoves_section(fen, from_builder(r.val))

fen_en_passant_section(fen, r) ==
    IF r.err # "None" THEN r
    ELSE fen_build_section(fen,
            IF fen.ep # << >> THEN BoardBuilder_en_passant(r.val, Square_from_string(fen.ep))
            ELSE r)

fen_castling_section(fen, r) ==
    IF r.err # "None" THEN r
    ELSE fen_en_passant_section(fen,
            IF fen.castling = <<"-">> THEN r ELSE fen_load_castling(r.val, fen.castling, 1))

fen_turn_section(fen, r) ==
    IF r.err # "None" THEN r
    ELSE fen_castling_section(fen,
            IF fen.turn = "w" THEN BoardBuilder_turn(r.val, "White")
            ELSE IF fen.turn = "b" THEN BoardBuilder_turn(r.val, "Black")
            ELSE Err("InvalidTurnSection", r.val))

from_fen(fen) ==
    fen_turn_section(fen, fen_load_pieces(BoardBuilder_new, fen.pieces, 1, A8))

\* --------------------------------------------------------------------------
\* ChessGame.  result is "None" or the GameResult; a ChessGame value is the
\* record of its five fields.
\* --------------------------------------------------------------------------
WhiteWins == "WhiteWins"

BlackWins == "BlackWins"

Draw(reason) == reason

\* the checkmate / stalemate block of look_for_terminal
terminal_no_moves(chessboard, moves, result0) ==
    IF Len(moves) = 0
    THEN IF chessboard.checkers = {} THEN Draw("Stalemate")
         ELSE IF chessboard.turn = "White" THEN BlackWins ELSE WhiteWins
    ELSE result0

\* the 50 move rule block with the clock read as full moves
terminal_fifty_moves_at_50(chessboard, result0) ==
    IF chessboard.half_move_clock >= 50 THEN Draw("FiftyMoves") ELSE result0

\* look_for_terminal without its 50 move rule block
terminal_fifty_moves_never(chessboard, result0) == result0

\* the 50 move rule block of look_for_terminal
terminal_fifty_moves(chessboard, result0) ==
    IF chessboard.half_move_clock >= 100 THEN Draw("FiftyMoves") ELSE result0

\* the material block without the test of the bishops' square colors
terminal_material_any_colors(chessboard, result0) ==
    LET nw == popcnt(color_occupancy(chessboard, "White"))
        nb == popcnt(color_occupancy(chessboard, "Black"))
        minor(color) == query(chessboard, "Bishop", color) # {} \/ query(chessboard, "Knight", color) # {}
    IN  IF \/ nw = 1 /\ nb = 1
           \/ nw = 1 /\ nb = 2 /\ minor("Black")
           \/ nw = 2 /\ nb = 1 /\ minor("White")
           \/ nw = 2 /\ nb = 2 /\ query(chessboard, "Bishop", "White") # {}
                               /\ query(chessboard, "Bishop", "Black") # {}
        THEN Draw("InsufficientMaterial") ELSE result0

\* the material block of look_for_terminal
terminal_material(chessboard, result0) ==
    LET nw == popcnt(color_occupancy(chessboard, "White"))
        nb == popcnt(color_occupancy(chessboard, "Black"))
        insufficient == Draw("InsufficientMaterial")
    IN  IF nw = 1
        THEN IF nb = 1 THEN insufficient
             ELSE IF nb = 2
             THEN IF query(chessboard, "Bishop", "Black") # {} \/ query(chessboard, "Knight", "Black") # {}
                  THEN insufficient ELSE result0
             ELSE result0
        ELSE IF nw = 2
        THEN IF nb = 2
             THEN IF overlaps(query(chessboard, "Bishop", "White"), WHITE_SQUARES)
                  THEN IF overlaps(query(chessboard, "Bishop", "Black"), WHITE_SQUARES)
                       THEN insufficient ELSE result0
                  ELSE IF overlaps(query(chessboard, "Bishop", "White"), BLACK_SQUARES)
                  THEN IF overlaps(query(chessboard, "Bishop", "Black"), BLACK_SQUARES)
                       THEN insufficient ELSE result0
                  ELSE result0
             ELSE IF nb = 1
             THEN IF query(chessboard, "Bishop", "White") # {} \/ query(chessboard, "Knight", "White") # {}
                  THEN insufficient ELSE result0
             ELSE result0
        ELSE result0

look_for_terminal(game) ==
    LET r1 == terminal_no_moves(game.state, game.position_moves, game.result)
        r2 == terminal_fifty_moves(game.state, r1)
    IN  [game EXCEPT !.result = terminal_material(game.state, r2)]

EmptyHistory == [fp \in {} |-> 0]

\* history.insert(state.footprint(), 1) on the fresh map
initial_history(chessboard) == [fp \in {footprint(chessboard)} |-> 1]

\* initialize_game without the clearing of the move list
clear_moves_never(game) == game

\* if game.result.is_some() { game.position_moves.clear() }
clear_moves_if_over(game) ==
    IF game.result # "None" THEN [game EXCEPT !.position_moves = << >>] ELSE game

initialize_game(chessboard) ==
    clear_moves_if_over(look_for_terminal(
        [state |-> chessboard,
         position_moves |-> MoveGen_to_vec(MoveGen_legal(chessboard), chessboard),
         history |-> initial_history(chessboard),
         made_moves |-> << >>,
         result |-> "None"]))

\* the repetition history cleared on every move
history_always_cleared(history0, mv) == EmptyHistory

\* if let Move::Quiet { .. } = mv {} else { self.history.clear() }
history_after_kind(history0, mv) ==
    IF mv.kind = "Quiet" THEN history0 ELSE EmptyHistory

\* get_mut / *count += 1 (a u8) / insert(.., 1)
history_count(history0, fp) ==
    IF fp \in DOMAIN history0
    THEN [history0 EXCEPT ![fp] = (@ + 1) % 256]
    ELSE [x \in DOMAIN history0 \cup {fp} |-> IF x = fp THEN 1 ELSE history0[x]]

\* a refusal that records the refused move all the same
make_move_refused_recording(game, mv) ==
    [ret |-> "Err", game |-> [game EXCEPT !.made_moves = Append(@, mv)]]

\* if self.result.is_some() { return Err(()) }
make_move_refused(game, mv) == [ret |-> "Err", game |-> game]

\* self.position_moves = MoveGen::legal(&self.state).to_vec(); self.look_for_terminal(); Ok(())
make_move_finish(game) ==
    [ret |-> "Ok",
     game |-> look_for_terminal(
         [game EXCEPT !.position_moves = MoveGen_to_vec(MoveGen_legal(game.state), game.state)])]

\* the repetition block: `game` has the footprint fp counted, was_present
\* says whether get_mut found it
make_move_counted(game, fp, was_present) ==
    IF was_present /\ game.history[fp] = 3
    THEN [ret |-> "Ok", game |-> [game EXCEPT !.result = Draw("ThreefoldRepetition")]]
    ELSE make_move_finish(game)

\* `game` has the move made and pushed and the history cleared if the move
\* is not quiet
make_move_made(game, fp) ==
    make_move_counted([game EXCEPT !.history = history_count(@, fp)], fp,
                      fp \in DOMAIN game.history)

\* ChessGame::make_move: [ret |-> "Ok" | "Err", game |-> the game afterwards]
ChessGame_make_move_body(game, mv, board1) ==
    make_move_made([game EXCEPT !.state = board1,
                                !.made_moves = Append(@, mv),
                                !.history = history_after_kind(@, mv)],
                   footprint(board1))

ChessGame_make_move(game, mv) ==
    IF game.result # "None" THEN make_move_refused(game, mv)
    ELSE ChessGame_make_move_body(game, mv, make_move(game.state, mv))

\* --------------------------------------------------------------------------
\* The state machine: a ChessGame built by ChessGame::from_fen and driven by
\* a caller that plays moves taken from moves() and keeps calling make_move
\* after the game is over.
\* --------------------------------------------------------------------------
VARIABLES fen, state, position_moves, history, made_moves, result, ret,
          builder, built, shifted

vars == <<fen, state, position_moves, history, made_moves, result, ret,
          builder, built, shifted>>

\* no BitBoard has been shifted
NoShift == [bb |-> EMPTY, call |-> "None", dir |-> "None"]

Game ==
    [state |-> state, position_moves |-> position_moves, history |-> history,
     made_moves |-> made_moves, result |-> result]

Range(seq) == {seq[i] : i \in 1 .. Len(seq)}

\* no finish() was called on the builder in the caller's hands
Unfinished == Err("Unfinished", BoardBuilder_new)

\* the variables hold the ChessGame `game` constructed from the FEN f
Constructed_with(f, game) ==
    /\ fen = f
    /\ state = game.state
    /\ position_moves = game.position_moves
    /\ history = game.history
    /\ made_moves = game.made_moves
    /\ result = game.result
    /\ ret = "None"
    /\ builder = BoardBuilder_new
    /\ built = Unfinished
    /\ shifted = NoShift

\* let state = ChessBoard::from_fen(fen)?; Ok(Self::initialize_game(state))
Constructed_in(f, loaded) ==
    /\ loaded.err = "None"
    /\ Constructed_with(f, initialize_game(loaded.val))

\* ChessGame::from_fen(f) returned Ok(game)
Constructed(f) == Constructed_in(f, from_fen(f))

\* the call returned r.ret and left the game r.game behind
Call_make_move_with(r) ==
    /\ state' = r.game.state
    /\ position_moves' = r.game.position_moves
    /\ history' = r.game.history
    /\ made_moves' = r.game.made_moves
    /\ result' = r.game.result
    /\ ret' = r.ret
    /\ UNCHANGED <<fen, builder, built, shifted>>

Call_make_move(mv) == Call_make_move_with(ChessGame_make_move(Game, mv))

\* the caller plays one of the moves of moves()
PlayMove(bound) ==
    /\ result = "None"
    /\ Len(made_moves) < bound
    /\ \E mv \in Range(position_moves) : Call_make_move(mv)

\* the caller calls make_move although a result is recorded
PlayAfterEnd ==
    /\ result # "None"
    /\ \E mv \in {Quiet(E1, F1, "King")} : Call_make_move(mv)

\* --------------------------------------------------------------------------
\* The FEN strings the games are constructed from, field by field: the piece
\* placement as its characters, the turn, the castling characters, the en
\* passant square's two characters (none for "-") and the halfmove number.
\* --------------------------------------------------------------------------
StartFens ==
    {\* castling, both sides, pawns blocked: 4k3/8/8/8/8/p6p/P6P/R3K2R w KQ - 0
     [pieces |-> <<"4","k","3","/","8","/","8","/","8","/","8","/","p","6","p","/","P","6","P","/","R","3","K","2","R">>, turn |-> "w", castling |-> <<"K","Q">>, ep |-> <<>>, halfmoves |-> <<0>>],
     \* black castling, f8 attacked: r3k2r/p6p/P6P/8/8/8/8/4KR2 b kq - 0
     [pieces |-> <<"r","3","k","2","r","/","p","6","p","/","P","6","P","/","8","/","8","/","8","/","8","/","4","K","R","2">>, turn |-> "b", castling |-> <<"k","q">>, ep |-> <<>>, halfmoves |-> <<0>>],
     \* double push giving check, answered en passant: 4k3/4p3/8/5P2/3K4/8/8/8 b - - 0
     [pieces |-> <<"4","k","3","/","4","p","3","/","8","/","5","P","2","/","3","K","4","/","8","/","8","/","8">>, turn |-> "b", castling |-> <<"-">>, ep |-> <<>>, halfmoves |-> <<0>>],
     \* en passant that would uncover the rook on the fifth rank: 8/2p5/7k/KP5r/7p/8/8/8 b - - 0
     [pieces |-> <<"8","/","2","p","5","/","7","k","/","K","P","5","r","/","7","p","/","8","/","8","/","8">>, turn |-> "b", castling |-> <<"-">>, ep |-> <<>>, halfmoves |-> <<0>>],
     \* double push uncovering the bishop's check: 3b3k/4p3/8/3P4/7K/8/8/8 b - - 0
     [pieces |-> <<"3","b","3","k","/","4","p","3","/","8","/","3","P","4","/","7","K","/","8","/","8","/","8">>, turn |-> "b", castling |-> <<"-">>, ep |-> <<>>, halfmoves |-> <<0>>],
     \* white promotions and promotion captures: 1n5k/P7/8/8/8/8/8/K7 w - - 0
     [pieces |-> <<"1","n","5","k","/","P","7","/","8","/","8","/","8","/","8","/","8","/","K","7">>, turn |-> "w", castling |-> <<"-">>, ep |-> <<>>, halfmoves |-> <<0>>],
     \* black promotions and promotion captures: k7/8/8/8/8/8/p7/1N5K b - - 0
     [pieces |-> <<"k","7","/","8","/","8","/","8","/","8","/","8","/","p","7","/","1","N","5","K">>, turn |-> "b", castling |-> <<"-">>, ep |-> <<>>, halfmoves |-> <<0>>],
     \* check on the e-file, pawn pinned by the bishop: 4r2k/8/8/8/7b/8/3N1P2/4K3 w - - 0
     [pieces |-> <<"4","r","2","k","/","8","/","8","/","8","/","7","b","/","8","/","3","N","1","P","2","/","4","K","3">>, turn |-> "w", castling |-> <<"-">>, ep |-> <<>>, halfmoves |-> <<0>>],
     \* double check: 4k3/8/8/8/8/5n2/8/r3K3 w - - 0
     [pieces |-> <<"4","k","3","/","8","/","8","/","8","/","8","/","5","n","2","/","8","/","r","3","K","3">>, turn |-> "w", castling |-> <<"-">>, ep |-> <<>>, halfmoves |-> <<0>>],
     \* en passant square given in the FEN: 4k3/8/8/3pP3/8/8/8/4K3 w - d6 0
     [pieces |-> <<"4","k","3","/","8","/","8","/","3","p","P","3","/","8","/","8","/","8","/","4","K","3">>, turn |-> "w", castling |-> <<"-">>, ep |-> <<"d","6">>, halfmoves |-> <<0>>],
     \* mate in one, clock 0: 7k/8/6K1/8/8/8/8/R7 w - - 0
     [pieces |-> <<"7","k","/","8","/","6","K","1","/","8","/","8","/","8","/","8","/","R","7">>, turn |-> "w", castling |-> <<"-">>, ep |-> <<>>, halfmoves |-> <<0>>],
     \* mate in one, clock 98: 7k/8/6K1/8/8/8/8/R7 w - - 98
     [pieces |-> <<"7","k","/","8","/","6","K","1","/","8","/","8","/","8","/","8","/","R","7">>, turn |-> "w", castling |-> <<"-">>, ep |-> <<>>, halfmoves |-> <<98>>],
     \* mate in one, clock 99: 7k/8/6K1/8/8/8/8/R7 w - - 99
     [pieces |-> <<"7","k","/","8","/","6","K","1","/","8","/","8","/","8","/","8","/","R","7">>, turn |-> "w", castling |-> <<"-">>, ep |-> <<>>, halfmoves |-> <<99>>],
     \* clock 100 at construction: 4k3/8/8/8/8/8/4P3/4K3 w - - 100
     [pieces |-> <<"4","k","3","/","8","/","8","/","8","/","8","/","8","/","4","P","3","/","4","K","3">>, turn |-> "w", castling |-> <<"-">>, ep |-> <<>>, halfmoves |-> <<100>>],
     \* checkmate at construction: R6k/8/6K1/8/8/8/8/8 b - - 0
     [pieces |-> <<"R","6","k","/","8","/","6","K","1","/","8","/","8","/","8","/","8","/","8">>, turn |-> "b", castling |-> <<"-">>, ep |-> <<>>, halfmoves |-> <<0>>],
     \* stalemate at construction: 1r5k/8/8/8/8/8/7r/K7 w - - 0
     [pieces |-> <<"1","r","5","k","/","8","/","8","/","8","/","8","/","8","/","7","r","/","K","7">>, turn |-> "w", castling |-> <<"-">>, ep |-> <<>>, halfmoves |-> <<0>>],
     \* stalemate with king and bishop against king: k7/2B5/1K6/8/8/8/8/8 b - - 0
     [pieces |-> <<"k","7","/","2","B","5","/","1","K","6","/","8","/","8","/","8","/","8","/","8">>, turn |-> "b", castling |-> <<"-">>, ep |-> <<>>, halfmoves |-> <<0>>],
     \* king against king: 7k/8/8/8/8/8/8/K7 w - - 0
     [pieces |-> <<"7","k","/","8","/","8","/","8","/","8","/","8","/","8","/","K","7">>, turn |-> "w", castling |-> <<"-">>, ep |-> <<>>, halfmoves |-> <<0>>],
     \* king and knight against king: 7k/8/8/8/8/8/8/KN6 w - - 0
     [pieces |-> <<"7","k","/","8","/","8","/","8","/","8","/","8","/","8","/","K","N","6">>, turn |-> "w", castling |-> <<"-">>, ep |-> <<>>, halfmoves |-> <<0>>],
     \* king against king and bishop: 6bk/8/8/8/8/8/8/K7 b - - 0
     [pieces |-> <<"6","b","k","/","8","/","8","/","8","/","8","/","8","/","8","/","K","7">>, turn |-> "b", castling |-> <<"-">>, ep |-> <<>>, halfmoves |-> <<0>>],
     \* bishops on squares of the same color: kb6/8/8/8/8/8/8/K1B5 w - - 0
     [pieces |-> <<"k","b","6","/","8","/","8","/","8","/","8","/","8","/","8","/","K","1","B","5">>, turn |-> "w", castling |-> <<"-">>, ep |-> <<>>, halfmoves |-> <<0>>],
     \* bishops on light squares: k1b5/8/8/8/8/8/8/KB6 w - - 0
     [pieces |-> <<"k","1","b","5","/","8","/","8","/","8","/","8","/","8","/","8","/","K","B","6">>, turn |-> "w", castling |-> <<"-">>, ep |-> <<>>, halfmoves |-> <<0>>],
     \* bishops on squares of opposite colors: kb6/8/8/8/8/8/8/KB6 w - - 0
     [pieces |-> <<"k","b","6","/","8","/","8","/","8","/","8","/","8","/","8","/","K","B","6">>, turn |-> "w", castling |-> <<"-">>, ep |-> <<>>, halfmoves |-> <<0>>],
     \* knight against knight: kn6/8/8/8/8/8/8/KN6 w - - 0
     [pieces |-> <<"k","n","6","/","8","/","8","/","8","/","8","/","8","/","8","/","K","N","6">>, turn |-> "w", castling |-> <<"-">>, ep |-> <<>>, halfmoves |-> <<0>>],
     \* black queenside right accepted with a knight on a8: n3k3/p7/8/8/8/8/P7/4K3 b q - 0
     [pieces |-> <<"n","3","k","3","/","p","7","/","8","/","8","/","8","/","8","/","P","7","/","4","K","3">>, turn |-> "b", castling |-> <<"q">>, ep |-> <<>>, halfmoves |-> <<0>>],
     \* rook and promoting pawn capture the rook on a8: r3k3/1P6/8/8/8/8/8/R3K3 w Qq - 0
     [pieces |-> <<"r","3","k","3","/","1","P","6","/","8","/","8","/","8","/","8","/","8","/","R","3","K","3">>, turn |-> "w", castling |-> <<"Q","q">>, ep |-> <<>>, halfmoves |-> <<0>>],
     \* en passant out of check, two pawns between king and rook: r3k3/4p3/8/3P4/8/P7/P7/K7 b - - 0
     [pieces |-> <<"r","3","k","3","/","4","p","3","/","8","/","3","P","4","/","8","/","P","7","/","P","7","/","K","7">>, turn |-> "b", castling |-> <<"-">>, ep |-> <<>>, halfmoves |-> <<0>>],
     \* capture leaving king against king: 4k3/8/8/8/8/8/3p4/4K3 w - - 0
     [pieces |-> <<"4","k","3","/","8","/","8","/","8","/","8","/","8","/","3","p","4","/","4","K","3">>, turn |-> "w", castling |-> <<"-">>, ep |-> <<>>, halfmoves |-> <<0>>]}

RepFens ==
    {\* locked pawns, kings shuffle on their back ranks: 7k/1p1p1p1p/1P1P1P1P/8/8/1p1p1p1p/1P1P1P1P/K7 w - - 0
     [pieces |-> <<"7","k","/","1","p","1","p","1","p","1","p","/","1","P","1","P","1","P","1","P","/","8","/","8","/","1","p","1","p","1","p","1","p","/","1","P","1","P","1","P","1","P","/","K","7">>, turn |-> "w", castling |-> <<"-">>, ep |-> <<>>, halfmoves |-> <<0>>],
     \* the same, the rook on d1 must be captured first: 7k/1p1p1p1p/1P1P1P1P/8/8/1p1p1p1p/1P1P1P1P/3rK3 w - - 0
     [pieces |-> <<"7","k","/","1","p","1","p","1","p","1","p","/","1","P","1","P","1","P","1","P","/","8","/","8","/","1","p","1","p","1","p","1","p","/","1","P","1","P","1","P","1","P","/","3","r","K","3">>, turn |-> "w", castling |-> <<"-">>, ep |-> <<>>, halfmoves |-> <<0>>],
     \* the same, clock 92: 7k/1p1p1p1p/1P1P1P1P/8/8/1p1p1p1p/1P1P1P1P/K7 w - - 92
     [pieces |-> <<"7","k","/","1","p","1","p","1","p","1","p","/","1","P","1","P","1","P","1","P","/","8","/","8","/","1","p","1","p","1","p","1","p","/","1","P","1","P","1","P","1","P","/","K","7">>, turn |-> "w", castling |-> <<"-">>, ep |-> <<>>, halfmoves |-> <<92>>],
     \* the same, clock 95: 7k/1p1p1p1p/1P1P1P1P/8/8/1p1p1p1p/1P1P1P1P/K7 w - - 95
     [pieces |-> <<"7","k","/","1","p","1","p","1","p","1","p","/","1","P","1","P","1","P","1","P","/","8","/","8","/","1","p","1","p","1","p","1","p","/","1","P","1","P","1","P","1","P","/","K","7">>, turn |-> "w", castling |-> <<"-">>, ep |-> <<>>, halfmoves |-> <<95>>]}

Init == \E f \in StartFens : Constructed(f)

Next == PlayMove(MaxPly) \/ PlayAfterEnd

Spec == Init /\ [][Next]_vars

\* long games of shuffling moves, for the repetition rule
InitRep == \E f \in RepFens : Constructed(f)

NextRep == PlayMove(MaxRepPly) \/ PlayAfterEnd

SpecRep == InitRep /\ [][NextRep]_vars

\* games that are over within MaxLivePly moves whatever the players do
LiveFens ==
    {\* locked pawns, kings shuffle on their back ranks, clock 92: 7k/1p1p1p1p/1P1P1P1P/8/8/1p1p1p1p/1P1P1P1P/K7 w - - 92
     [pieces |-> <<"7","k","/","1","p","1","p","1","p","1","p","/","1","P","1","P","1","P","1","P","/","8","/","8","/","1","p","1","p","1","p","1","p","/","1","P","1","P","1","P","1","P","/","K","7">>, turn |-> "w", castling |-> <<"-">>, ep |-> <<>>, halfmoves |-> <<92>>],
     \* mate in one or two more moves, clock 98: 7k/8/6K1/8/8/8/8/R7 w - - 98
     [pieces |-> <<"7","k","/","8","/","6","K","1","/","8","/","8","/","8","/","8","/","R","7">>, turn |-> "w", castling |-> <<"-">>, ep |-> <<>>, halfmoves |-> <<98>>],
     \* knights that can capture each other, clock 97: 8/8/8/3n4/8/4N3/8/K6k w - - 97
     [pieces |-> <<"8","/","8","/","8","/","3","n","4","/","8","/","4","N","3","/","8","/","K","6","k">>, turn |-> "w", castling |-> <<"-">>, ep |-> <<>>, halfmoves |-> <<97>>]}

InitLive == \E f \in LiveFens : Constructed(f)

\* PlayMove within the bounds of the number of moves and of the u8 clock
PlayOn == state.half_move_clock <= MaxLiveClock /\ PlayMove(MaxLivePly)

NextLive == PlayOn \/ PlayAfterEnd

\* PlayOn can be taken: no result is recorded and moves() offers a move
CanPlayOn ==
    /\ state.half_move_clock <= MaxLiveClock
    /\ result = "None"
    /\ Len(made_moves) < MaxLivePly
    /\ position_moves # << >>

\* the caller keeps making moves while moves() offers one: weak fairness of
\* PlayOn, with its enabling condition written out
SpecLive == InitLive /\ [][NextLive]_vars /\ ([]<>(~CanPlayOn) \/ []<><<PlayOn>>_vars)

\* --------------------------------------------------------------------------
\* The state machine of a caller that fills a BoardBuilder call by call and
\* then converts it: every method consumes the builder and returns a Result,
\* so after an Err the chain is over.  No ChessGame exists in this machine.
\* --------------------------------------------------------------------------
NoGame ==
    /\ fen = "None"
    /\ state = "None"
    /\ position_moves = << >>
    /\ history = EmptyHistory
    /\ made_moves = << >>
    /\ result = "None"
    /\ ret = "None"

\* the call returned r: Ok hands the builder back, Err ends the chain
Call_builder_with(r) ==
    /\ built = Unfinished
    /\ IF r.err = "None"
       THEN builder' = r.val /\ UNCHANGED built
       ELSE built' = r /\ UNCHANGED builder
    /\ UNCHANGED <<fen, state, position_moves, history, made_moves, result, ret, shifted>>

\* the pieces and squares the caller places
BuildPlacements ==
    {<<E1, Piece_new("King", "White")>>, <<D1, Piece_new("King", "White")>>,
     <<E8, Piece_new("King", "Black")>>,
     <<H1, Piece_new("Rook", "White")>>, <<A1, Piece_new("Rook", "White")>>,
     <<H8, Piece_new("Rook", "Black")>>, <<A8, Piece_new("Rook", "Black")>>,
     <<B1, Piece_new("Pawn", "White")>>, <<B8, Piece_new("Pawn", "White")>>,
     <<G1, Piece_new("Pawn", "Black")>>, <<G8, Piece_new("Pawn", "Black")>>}

\* the en passant square the caller names: d6
BuildEnPassantSquares == {D8 - 16}

AddPiece ==
    \E p \in BuildPlacements : Call_builder_with(BoardBuilder_piece(builder, p[1], p[2]))

SetTurn ==
    \E color \in Colors : Call_builder_with(BoardBuilder_turn(builder, color))

SetCastleRight ==
    \E side \in {"Kingside", "Queenside"}, color \in Colors :
        Call_builder_with(BoardBuilder_castle_right(builder, side, color))

SetEnPassant ==
    \E square \in BuildEnPassantSquares :
        Call_builder_with(BoardBuilder_en_passant(builder, square))

\* finish(): ChessBoard::from_builder(self)
Finish ==
    /\ built = Unfinished
    /\ built' = from_builder(builder)
    /\ UNCHANGED <<builder, fen, state, position_moves, history, made_moves, result, ret, shifted>>

InitBuild == NoGame /\ builder = BoardBuilder_new /\ built = Unfinished /\ shifted = NoShift

NextBuild == AddPiece \/ SetTurn \/ SetCastleRight \/ SetEnPassant \/ Finish

SpecBuild == InitBuild /\ [][NextBuild]_vars

\* --------------------------------------------------------------------------
\* The state machine of a caller that shifts a BitBoard again and again, by
\* up(), down(), left(), right() or shift_dir(dir).  `shifted` holds the
\* BitBoard, the method called last and its direction.
\* --------------------------------------------------------------------------
\* the BitBoards the caller starts from: each square, and the edges
ShiftStarts ==
    {{s} : s \in SQUARES}
        \cup {from_file(FileA), from_file(FileH), from_rank(First), from_rank(Eighth)}

Call_shift(call, dir, bb) ==
    /\ shifted' = [bb |-> bb, call |-> call, dir |-> dir]
    /\ UNCHANGED <<fen, state, position_moves, history, made_moves, result, ret, builder, built>>

ShiftUp == Call_shift("up", "Up", up(shifted.bb))

ShiftDown == Call_shift("down", "Down", down(shifted.bb))

ShiftLeft == Call_shift("left", "Left", left(shifted.bb))

ShiftRight == Call_shift("right", "Right", right(shifted.bb))

ShiftDir == \E dir \in Range(DIRS) : Call_shift("shift_dir", dir, shift_dir(shifted.bb, dir))

InitShift ==
    /\ NoGame
    /\ builder = BoardBuilder_new
    /\ built = Unfinished
    /\ \E bb \in ShiftStarts : shifted = [bb |-> bb, call |-> "None", dir |-> "None"]

NextShift == ShiftUp \/ ShiftDown \/ ShiftLeft \/ ShiftRight \/ ShiftDir

SpecShift == InitShift /\ [][NextShift]_vars

\* --------------------------------------------------------------------------
\* Reference definitions: the rules of chess stated on the ranks and files
\* of the squares, without the attack tables and without the generator.
\* --------------------------------------------------------------------------
Abs(x) == IF x < 0 THEN -x ELSE x

Sgn(x) == IF x < 0 THEN -1 ELSE IF x > 0 THEN 1 ELSE 0

Max(a, b) == IF a >= b THEN a ELSE b

RankDiff(a, b) == Rank_of(b) - Rank_of(a)

FileDiff(a, b) == File_of(b) - File_of(a)

RefOnDiagonal(a, b) == a # b /\ Abs(RankDiff(a, b)) = Abs(FileDiff(a, b))

RefOnLine(a, b) == a # b /\ (RankDiff(a, b) = 0 \/ FileDiff(a, b) = 0)

\* the squares strictly between two squares of one line or diagonal
RefBetween(a, b) ==
    {a + k * (Sgn(RankDiff(a, b)) * 8 + Sgn(FileDiff(a, b))) :
        k \in 1 .. (Max(Abs(RankDiff(a, b)), Abs(FileDiff(a, b))) - 1)}

RefOccupied(board) == UNION {board.color_bbs[c] : c \in Colors}

\* the pieces of a color as <<square, kind>>
RefPieces(board, color) ==
    {p \in SQUARES \X PieceTypes : p[1] \in board.piece_bbs[p[2]] /\ p[1] \in board.color_bbs[color]}

RefPawnDir(color) == IF color = "White" THEN 1 ELSE -1

\* a piece of the given kind and color standing on `from` attacks `to`
RefAttacks(board, from, kind, color, to) ==
    CASE kind = "Pawn" ->
            RankDiff(from, to) = RefPawnDir(color) /\ Abs(FileDiff(from, to)) = 1
      [] kind = "Knight" ->
            {Abs(RankDiff(from, to)), Abs(FileDiff(from, to))} = {1, 2}
      [] kind = "King" ->
            from # to /\ Abs(RankDiff(from, to)) <= 1 /\ Abs(FileDiff(from, to)) <= 1
      [] kind = "Bishop" ->
            RefOnDiagonal(from, to) /\ RefBetween(from, to) \cap RefOccupied(board) = {}
      [] kind = "Rook" ->
            RefOnLine(from, to) /\ RefBetween(from, to) \cap RefOccupied(board) = {}
      [] kind = "Queen" ->
            /\ RefOnDiagonal(from, to) \/ RefOnLine(from, to)
            /\ RefBetween(from, to) \cap RefOccupied(board) = {}

RefAttacked(board, square, by) ==
    \E p \in RefPieces(board, by) : RefAttacks(board, p[1], p[2], by, square)

RefKing(board, color) == CHOOSE sq \in SQUARES : <<sq, "King">> \in RefPieces(board, color)

RefInCheck(board, color) == RefAttacked(board, RefKing(board, color), Not(color))

PromotionTargets == {"Knight", "Bishop", "Rook", "Queen"}

\* moves of a knight, bishop, rook, queen or king: to any attacked square
\* not held by a piece of its own color
RefPieceMoves(board, from, kind) ==
    {IF to \in board.color_bbs[Not(board.turn)]
     THEN Capture(from, to, kind) ELSE Quiet(from, to, kind) :
        to \in {t \in SQUARES \ board.color_bbs[board.turn] :
                    RefAttacks(board, from, kind, board.turn, t)}}

\* pawn moves: push, double push from the start rank, capture, en passant,
\* each move onto the last rank being a promotion to one of four pieces
RefPawnMoves(board, from) ==
    LET us == board.turn
        one == from + 8 * RefPawnDir(us)
        two == from + 16 * RefPawnDir(us)
        start_rank == IF us = "White" THEN 1 ELSE 6
        last_rank == IF us = "White" THEN 7 ELSE 0
        attacked == {t \in SQUARES : RefAttacks(board, from, "Pawn", us, t)}
        pushes ==
            IF one \in SQUARES /\ one \notin RefOccupied(board)
            THEN (IF Rank_of(one) = last_rank
                  THEN {Promote(from, one, k) : k \in PromotionTargets}
                  ELSE {Quiet(from, one, "Pawn")})
                 \cup
                 (IF Rank_of(from) = start_rank /\ two \notin RefOccupied(board)
                  THEN {DoublePawnPush(from, two)} ELSE {})
            ELSE {}
        captures ==
            UNION {IF Rank_of(t) = last_rank
                   THEN {PromoteCapture(from, t, k) : k \in PromotionTargets}
                   ELSE {Capture(from, t, "Pawn")} :
                      t \in attacked \cap board.color_bbs[Not(us)]}
        en_passants == {EnPassant(from, t) : t \in attacked \cap board.en_passant}
    IN  pushes \cup captures \cup en_passants

\* castling: the right is held, the squares between king and rook are empty,
\* the king is not in check and passes over no attacked square
RefCastleMoves(board) ==
    LET us == board.turn
        home == IF us = "White" THEN 0 ELSE 56
        safe(squares) == \A s \in squares : ~RefAttacked(board, s, Not(us))
    IN  (IF /\ CastlingRights_is_set(board.castling_rights, "Kingside", us)
            /\ {home + 5, home + 6} \cap RefOccupied(board) = {}
            /\ safe({home + 4, home + 5, home + 6})
         THEN {Castle(home + 4, home + 6, "Kingside")} ELSE {})
        \cup
        (IF /\ CastlingRights_is_set(board.castling_rights, "Queenside", us)
            /\ {home + 1, home + 2, home + 3} \cap RefOccupied(board) = {}
            /\ safe({home + 4, home + 3, home + 2})
         THEN {Castle(home + 4, home + 2, "Queenside")} ELSE {})

RefPseudoLegal(board) ==
    UNION {IF p[2] = "Pawn" THEN RefPawnMoves(board, p[1])
           ELSE RefPieceMoves(board, p[1], p[2]) : p \in RefPieces(board, board.turn)}
        \cup RefCastleMoves(board)

\* the mover's king is not attacked in the position `after` the move
RefKingSafe(after, mover) == ~RefAttacked(after, RefKing(after, mover), Not(mover))

RefLegalMoves(board) ==
    {m \in RefPseudoLegal(board) : RefKingSafe(make_move(board, m), board.turn)}

\* the material without the kings
RefOthers(board, color) == {p \in RefPieces(board, color) : p[2] # "King"}

RefSingle(board, color, kinds) ==
    Cardinality(RefOthers(board, color)) = 1 /\ \A p \in RefOthers(board, color) : p[2] \in kinds

SquareColor(square) == (Rank_of(square) + File_of(square)) % 2

RefInsufficient(board) ==
    \/ RefOthers(board, "White") = {} /\ RefOthers(board, "Black") = {}
    \/ RefOthers(board, "White") = {} /\ RefSingle(board, "Black", {"Knight", "Bishop"})
    \/ RefOthers(board, "Black") = {} /\ RefSingle(board, "White", {"Knight", "Bishop"})
    \/ /\ RefSingle(board, "White", {"Bishop"})
       /\ RefSingle(board, "Black", {"Bishop"})
       /\ \A w \in RefOthers(board, "White") : \A b \in RefOthers(board, "Black") :
              SquareColor(w[1]) = SquareColor(b[1])

\* the list MoveGen::legal yields for a position
GeneratedMoves(board) == MoveGen_to_vec(MoveGen_legal(board), board)

\* the positions of a game: `board` and the positions after each of the
\* moves from the i-th on
RECURSIVE Replay(_, _, _)
Replay(board, moves, i) ==
    <<board>> \o (IF i > Len(moves) THEN << >>
                  ELSE Replay(make_move(board, moves[i]), moves, i + 1))

\* the positions of the game played so far, the constructed one first
GameBoards == Replay(from_fen(fen).val, made_moves, 1)

\* the position after the first n moves of the game
BoardAt(n) == GameBoards[n + 1]

\* what identifies a position for the repetition rule
Position(board) ==
    <<board.piece_bbs, board.color_bbs, board.castling_rights, board.en_passant, board.turn>>

OccurrencesIn(boards, position) ==
    Cardinality({n \in 1 .. Len(boards) : Position(boards[n]) = position})

\* how often the current position has occurred in the game, the constructed
\* position included
Occurrences == OccurrencesIn(GameBoards, Position(state))

\* --------------------------------------------------------------------------
\* The claims
\* --------------------------------------------------------------------------

C2_GeneratorIsLegalMoves ==
    /\ Range(GeneratedMoves(state)) = RefLegalMoves(state)
    /\ Len(GeneratedMoves(state)) = Cardinality(RefLegalMoves(state))

\* C2 witness: a position, reached by a move, in which an en passant capture
\* obeys the pawn's rules but would leave the mover's king attacked.
C2_EnPassantFiltered ==
    /\ Len(made_moves) >= 1
    /\ \E m \in RefPseudoLegal(state) \ RefLegalMoves(state) : m.kind = "EnPassant"
    /\ RefLegalMoves(state) # {}

\* C3: with a result recorded make_move returns Err and changes neither the
\* board, the cached moves, the repetition map, the made moves nor the
\* result; without a recorded result it does not return Err.
C3_RefusedAfterResult ==
    [][/\ result # "None" =>
            /\ ret' = "Err"
            /\ UNCHANGED <<state, position_moves, history, made_moves, result>>
       /\ result = "None" => ret' = "Ok"]_vars

\* C3 witness: a game that was played to its end and then refused a move.
C3_MoveRefused ==
    ret = "Err" /\ result # "None" /\ Len(made_moves) >= 1

\* C4: the result is the threefold repetition draw exactly when the current
\* position occurs for the third time in the game, and no position occurs a
\* fourth time.
C4_ThreefoldAtThirdOccurrence ==
    /\ result = Draw("ThreefoldRepetition") <=> Occurrences >= 3
    /\ Occurrences <= 3

\* C4 witness: a repetition draw in a game whose history was cleared by a
\* move that is not quiet.
C4_RepetitionAfterCapture ==
    /\ result = Draw("ThreefoldRepetition")
    /\ \E i \in 1 .. Len(made_moves) : made_moves[i].kind # "Quiet"

\* C5: whenever terminal detection has run and the side to move has no legal
\* move, the result is the opponent's win if that side is in check and the
\* stalemate draw if it is not.
C5_NoMovesMeansMateOrStalemate ==
    (result # Draw("ThreefoldRepetition") /\ RefLegalMoves(state) = {}) =>
        result = IF RefInCheck(state, state.turn)
                 THEN (IF state.turn = "White" THEN BlackWins ELSE WhiteWins)
                 ELSE Draw("Stalemate")

\* C6: without a recorded result the halfmove clock is below 100, and the
\* fifty moves draw is recorded only with a clock of at least 100.
C6_FiftyMovesThreshold ==
    /\ result = "None" => state.half_move_clock < 100
    /\ result = Draw("FiftyMoves") => state.half_move_clock >= 100

\* C6 witness: the fifty moves draw recorded by a move that brought the
\* clock to 100.
C6_FiftyMovesByMove ==
    /\ result = Draw("FiftyMoves")
    /\ Len(made_moves) >= 1
    /\ state.half_move_clock = 100

\* C7: where terminal detection has run, the insufficient material draw is
\* recorded exactly for king against king, king and one minor piece against
\* king, and king and bishop against king and bishop on one square color.
C7_InsufficientMaterialExactly ==
    result # Draw("ThreefoldRepetition") =>
        (result = Draw("InsufficientMaterial") <=> RefInsufficient(state))

\* C7 witness: the draw recorded after a capture that left two bishops on
\* squares of one color, or the bare kings.
C7_InsufficientByCapture ==
    /\ result = Draw("InsufficientMaterial")
    /\ Len(made_moves) >= 1
    /\ made_moves[Len(made_moves)].kind = "Capture"

\* C8: a game constructed on a terminal position (no legal move, clock at
\* 100 or more, insufficient material) has its result recorded and an empty
\* moves() list.
C8_TerminalAtConstruction ==
    (/\ made_moves = << >>
     /\ \/ RefLegalMoves(state) = {}
        \/ state.half_move_clock >= 100
        \/ RefInsufficient(state))
    => (result # "None" /\ position_moves = << >>)

\* C8 witness: a constructed game that is over by the clock alone, in a
\* position that has legal moves.
C8_OverByClockAtConstruction ==
    /\ made_moves = << >>
    /\ ret = "None"
    /\ state.half_move_clock >= 100
    /\ RefLegalMoves(state) # {}
    /\ ~RefInsufficient(state)
    /\ result # "None"
    /\ position_moves = << >>

\* C9: after a successful make_move, moves() holds the legal moves of the
\* current position.
C9_MovesOfCurrentPosition ==
    ret = "Ok" => Range(position_moves) = RefLegalMoves(state)

\* the hash the builder computes for a position assembled from scratch
RECURSIVE hash_pieces_from_scratch(_, _)
hash_pieces_from_scratch(hash, pieces) ==
    IF pieces = {} THEN hash
    ELSE LET p == CHOOSE x \in pieces : TRUE
         IN  hash_pieces_from_scratch(hash_piece(hash, p[1], Piece_new(p[2], p[3])), pieces \ {p})

RECURSIVE hash_rights_from_scratch(_, _)
hash_rights_from_scratch(hash, rights) ==
    IF rights = {} THEN hash
    ELSE LET r == CHOOSE x \in rights : TRUE
         IN  hash_rights_from_scratch(hash_castle_right(hash, r[1], r[2]), rights \ {r})

HashFromScratch(board) ==
    LET placed == hash_pieces_from_scratch(ZobristHash_new,
                    {p \in SQUARES \X PieceTypes \X Colors :
                        p[1] \in board.piece_bbs[p[2]] /\ p[1] \in board.color_bbs[p[3]]})
        turned == IF board.turn = "Black" THEN hash_toggle_turn(placed) ELSE placed
        righted == hash_rights_from_scratch(turned, board.castling_rights)
    IN  IF board.en_passant # {} THEN hash_ep(righted, unwrap(board.en_passant)) ELSE righted

\* C10: the incrementally maintained hash of every reached position is the
\* hash the builder computes for that position from scratch.
C10_HashIsHashFromScratch ==
    state.hash = HashFromScratch(state)

OccupancyInvariant(board) ==
    /\ \A sq \in SQUARES : Cardinality({k \in PieceTypes : sq \in board.piece_bbs[k]}) <= 1
    /\ board.color_bbs["White"] \cap board.color_bbs["Black"] = {}
    /\ \A sq \in SQUARES :
        (\E k \in PieceTypes : sq \in board.piece_bbs[k])
            <=> Cardinality({c \in Colors : sq \in board.color_bbs[c]}) = 1

\* C12: after a generated move of any kind every square is in at most one
\* piece bitboard, the color bitboards are disjoint, and a square is in a
\* piece bitboard exactly when it is in exactly one color bitboard.
C12_OccupancyPreserved ==
    OccupancyInvariant(state)

\* the home squares of the king and of the rook of a castling right
RefKingHome(color) == IF color = "White" THEN E1 ELSE E8

RefRookHome(side, color) ==
    IF color = "White" THEN (IF side = "Kingside" THEN H1 ELSE A1)
    ELSE (IF side = "Kingside" THEN H8 ELSE A8)

\* a castling right of the builder is set with the king or the rook not at home
RefBadCastleRight(b) ==
    \E side \in {"Kingside", "Queenside"}, color \in Colors :
        /\ <<side, color>> \in b.castling_rights
        /\ \/ b.piece_map[RefKingHome(color)] # {Piece_new("King", color)}
           \/ b.piece_map[RefRookHome(side, color)] # {Piece_new("Rook", color)}

\* C13: finish() on a builder that passes the checks made before the castling
\* check (piece counts, turn, kings, en passant) returns
\* Err(InvalidCastleRight) whenever one of the four rights is set while that
\* color's king or the matching rook is not on its home square.
C13_BadCastleRightRejected ==
    (/\ built.err \in {"None", "InvalidCastleRight", "InactiveKingAttacked"}
     /\ RefBadCastleRight(builder))
    => built.err = "InvalidCastleRight"

\* the squares of the first and of the eighth rank
RefEndRanks == {sq \in SQUARES : sq \div 8 \in {0, 7}}

\* C14: the builder never holds a pawn of either color on rank 1 or rank 8
\* (piece() answers such a placement with Err(PawnOnLast)), and so neither
\* does a position that finish() returns.
C14_NoPawnOnFirstOrLastRank ==
    /\ \A sq \in RefEndRanks, color \in Colors :
            builder.piece_map[sq] # {Piece_new("Pawn", color)}
    /\ built.err = "None" => built.val.piece_bbs["Pawn"] \cap RefEndRanks = {}

\* the en passant captures of a position whose en passant square is sq
RefEnPassantCaptures(board, sq) ==
    {m \in RefLegalMoves([board EXCEPT !.en_passant = {sq}]) : m.kind = "EnPassant"}

\* C15: a position loaded with an en passant square holds that square in its
\* en passant field, in agreement with the entry the builder put into the
\* hash, and the generator yields the en passant captures onto it.
C15_EnPassantSquareKept ==
    (made_moves = << >> /\ fen.ep # << >>) =>
        /\ state.en_passant = {Square_from_string(fen.ep)}
        /\ EN_PASSANT_ZOBRIST(File_of(Square_from_string(fen.ep))) \in state.hash
        /\ RefEnPassantCaptures(state, Square_from_string(fen.ep)) \subseteq Range(position_moves)

\* the en passant entries of a hash, and the entry of an Option<Square>
EpEntries(hash) == {k \in hash : k[1] = "ep"}

EpEntryOf(en_passant) == {EN_PASSANT_ZOBRIST(File_of(sq)) : sq \in en_passant}

\* the en passant square make_move(mv) has to leave behind
RefSkipped(mv) ==
    IF mv.kind = "DoublePawnPush" THEN {(mv.start + mv.end) \div 2} ELSE {}

\* C16: after make_move(m) the en passant square is the square a double pawn
\* push skipped and is unset after a move of any other kind, so that a square
\* set by one move is gone after the next; the step XORs the entry of the old
\* square out of the hash and the entry of the new one in, and in a game
\* loaded without an en passant square the hash holds exactly the entry of
\* the square that is set.
C16_EnPassantLivesOnePly ==
    [][made_moves' # made_moves =>
        /\ state'.en_passant = RefSkipped(made_moves'[Len(made_moves')])
        /\ EpEntries(state'.hash)
             = Xor(Xor(EpEntries(state.hash), EpEntryOf(state.en_passant)),
                   EpEntryOf(state'.en_passant))
        /\ fen.ep = << >> => EpEntries(state'.hash) = EpEntryOf(state'.en_passant)]_vars

\* C16 witness: a double pawn push allowed an en passant capture, another
\* move was played instead, and the square and its hash entry are gone.
C16_EnPassantNotTaken ==
    /\ Len(made_moves) >= 2
    /\ made_moves[Len(made_moves) - 1].kind = "DoublePawnPush"
    /\ made_moves[Len(made_moves)].kind \notin {"EnPassant", "DoublePawnPush"}
    /\ RefEnPassantCaptures(BoardAt(Len(made_moves) - 1),
                            unwrap(RefSkipped(made_moves[Len(made_moves) - 1]))) # {}
    /\ state.en_passant = {}
    /\ EpEntries(state.hash) = {}

\* the castling entries of a hash, and the entries of a set of rights
CastleEntries(hash) == {k \in hash : k[1] = "castle"}

CastleEntriesOf(rights) == {CASTLE_RIGHTS_ZOBRIST(r[1], r[2]) : r \in rights}

\* the rights a move of the side `us` takes away
RefRightsLost(mv, us) ==
    LET them == Not(us)
        corners(color) == IF color = "White" THEN <<A1, H1>> ELSE <<A8, H8>>
        king_moved == \/ mv.kind = "Castle"
                      \/ mv.kind \in {"Quiet", "Capture"} /\ mv.moving = "King"
        rook_moved == mv.kind \in {"Quiet", "Capture"} /\ mv.moving = "Rook"
        captured == mv.kind \in {"Capture", "PromoteCapture"}
    IN  (IF king_moved THEN {<<"Kingside", us>>, <<"Queenside", us>>} ELSE {})
        \cup (IF rook_moved /\ mv.start = corners(us)[1] THEN {<<"Queenside", us>>} ELSE {})
        \cup (IF rook_moved /\ mv.start = corners(us)[2] THEN {<<"Kingside", us>>} ELSE {})
        \cup (IF captured /\ mv.end = corners(them)[1] THEN {<<"Queenside", them>>} ELSE {})
        \cup (IF captured /\ mv.end = corners(them)[2] THEN {<<"Kingside", them>>} ELSE {})

\* C17: make_move takes away the mover's two rights when the king moves or
\* castles, the mover's right of the corner a rook leaves, and the opponent's
\* right of the corner a capture lands on; it sets no right and changes no
\* other; the hash has the entry of exactly the rights that changed XORed,
\* and holds the entries of exactly the rights that are set.
C17_CastlingRightsDropped ==
    [][made_moves' # made_moves =>
        /\ state'.castling_rights
             = state.castling_rights \ RefRightsLost(made_moves'[Len(made_moves')], state.turn)
        /\ CastleEntries(state'.hash)
             = Xor(CastleEntries(state.hash),
                   CastleEntriesOf(state.castling_rights \ state'.castling_rights))
        /\ CastleEntries(state'.hash) = CastleEntriesOf(state'.castling_rights)]_vars

\* C17 witness: the rook from a1 has captured the rook on a8 and both
\* queenside rights, set before, are gone.
C17_RookTakesRook ==
    /\ Len(made_moves) >= 1
    /\ made_moves[Len(made_moves)] = Capture(A1, A8, "Rook")
    /\ {<<"Queenside", "White">>, <<"Queenside", "Black">>}
            \subseteq BoardAt(Len(made_moves) - 1).castling_rights
    /\ state.castling_rights = {}

\* the indices at which a list of moves holds a move from `from` to `to`
MovesOfPair(gen, from, to) ==
    {i \in 1 .. Len(gen) : gen[i].start = from /\ gen[i].end = to}

\* the moves of one start/end pair are the four promotions, all captures or
\* all not, when a pawn reaches its last rank, and one move otherwise
RefPairYield(board, gen, at, from, to) ==
    IF /\ from \in board.piece_bbs["Pawn"]
       /\ to \div 8 = (IF board.turn = "White" THEN 7 ELSE 0)
    THEN /\ Cardinality(at) = 4
         /\ {gen[i].target : i \in at} = PromotionTargets
         /\ \A i \in at :
                gen[i].kind = IF to \in board.color_bbs[Not(board.turn)]
                              THEN "PromoteCapture" ELSE "Promote"
    ELSE Cardinality(at) = 1

RefYieldsOnce(board, gen, legal) ==
    /\ legal \subseteq Range(gen)
    /\ {<<gen[i].start, gen[i].end>> : i \in 1 .. Len(gen)} = {<<m.start, m.end>> : m \in legal}
    /\ \A m \in legal :
            RefPairYield(board, gen, MovesOfPair(gen, m.start, m.end), m.start, m.end)

\* C18: iterating MoveGen::legal to its end yields every legal move; a pawn's
\* start/end pair on its last rank is yielded as exactly the four promotions
\* to knight, bishop, rook and queen (all captures when the end square holds
\* an enemy piece, none otherwise) and every other pair as exactly one move.
C18_EachMoveOnce ==
    RefYieldsOnce(state, GeneratedMoves(state), RefLegalMoves(state))

\* C18 witness: a position reached by a move in which the iterator yields a
\* pawn's promotions and its promotion captures.
C18_PromotionsYielded ==
    /\ Len(made_moves) >= 1
    /\ \E m \in Range(position_moves) : m.kind = "Promote"
    /\ \E m \in Range(position_moves) : m.kind = "PromoteCapture"
    /\ position_moves = GeneratedMoves(state)

\* the number of moves two plies of the generator yield
RECURSIVE RefLeaves(_, _, _)
RefLeaves(board, gen, i) ==
    IF i > Len(gen) THEN 0
    ELSE Len(GeneratedMoves(make_move(board, gen[i]))) + RefLeaves(board, gen, i + 1)

RefCountAgrees(board, gen) ==
    /\ count_legal_moves(board) = Len(gen)
    /\ perft(board, 1) = Len(gen)
    /\ perft(board, 0) = 1

\* C19: count_legal_moves of a position, and so perft to depth 1, is the
\* number of moves the iterator yields for it, and perft to depth 0 is 1; in
\* the loaded positions perft to depth 2 is the number of moves the iterator
\* yields in the positions after each of its moves.
C19_CountIsEnumeration ==
    /\ RefCountAgrees(state, GeneratedMoves(state))
    /\ made_moves = << >> => perft(state, 2) = RefLeaves(state, GeneratedMoves(state), 1)

\* C19 witness: a position reached by a move with promotions and with moves
\* that are none, counted as many times as yielded.
C19_PromotionsCounted ==
    /\ Len(made_moves) >= 1
    /\ \E m \in Range(position_moves) : m.kind \in {"Promote", "PromoteCapture"}
    /\ \E m \in Range(position_moves) : m.kind = "Quiet"
    /\ count_legal_moves(state) = Len(position_moves)

\* the squares of the mover's back rank on the files of the given squares of
\* the first rank
RefBackRank(board, firsts) == {(IF board.turn = "White" THEN s ELSE s + (A8 - A1)) : s \in firsts}

RefCastleOffered(gen, side) == \E m \in Range(gen) : m.kind = "Castle" /\ m.side = side

\* the right is set, the squares on the `empty` files hold no piece and the
\* squares on the `safe` files are not attacked by the enemy
RefCastleAllowed(board, side, empty, safe) ==
    /\ CastlingRights_is_set(board.castling_rights, side, board.turn)
    /\ RefBackRank(board, empty) \cap RefOccupied(board) = {}
    /\ \A s \in RefBackRank(board, safe) : ~RefAttacked(board, s, Not(board.turn))

RefCastlesOffered(board, gen) ==
    IF RefInCheck(board, board.turn)
    THEN \A side \in {"Kingside", "Queenside"} : ~RefCastleOffered(gen, side)
    ELSE /\ RefCastleOffered(gen, "Kingside")
                <=> RefCastleAllowed(board, "Kingside", {F1, G1}, {F1, G1})
         /\ RefCastleOffered(gen, "Queenside")
                <=> RefCastleAllowed(board, "Queenside", {B1, C1, D1}, {C1, D1})

RefAfterEnPassant(board, from, captured) ==
    [board EXCEPT !.piece_bbs["Pawn"] = (@ \ {from, captured}) \cup board.en_passant,
                  !.color_bbs[board.turn] = (@ \ {from}) \cup board.en_passant,
                  !.color_bbs[Not(board.turn)] = @ \ {captured}]

\* a rook, bishop or queen of `by` attacks the square
RefSliderAttacked(board, square, by) ==
    \E p \in RefPieces(board, by) :
        p[2] \in {"Rook", "Bishop", "Queen"} /\ RefAttacks(board, p[1], p[2], by, square)

\* the mover's king, the pawn on `from`, the pawn it would capture en passant
\* and an enemy rook or queen stand on one rank with nothing else between
RefRankExposed(board, from, captured) ==
    \E p \in RefPieces(board, Not(board.turn)) :
        /\ p[2] \in {"Rook", "Queen"}
        /\ Rank_of(p[1]) = Rank_of(RefKing(board, board.turn))
        /\ RefBetween(RefKing(board, board.turn), p[1]) \cap RefOccupied(board) = {from, captured}

RefEnPassantSafe(board, gen) ==
    \A m \in Range(gen) :
        m.kind = "EnPassant" =>
            LET captured == m.end - 8 * RefPawnDir(board.turn)
                after == RefAfterEnPassant(board, m.start, captured)
            IN  /\ ~RefSliderAttacked(after, RefKing(after, board.turn), Not(board.turn))
                /\ ~RefRankExposed(board, m.start, captured)

\* C21: every en passant capture the generator yields leaves the mover's king
\* attacked by no enemy rook, bishop or queen once the capturing pawn stands
\* on the en passant square and the captured pawn is gone; none is yielded
\* when king, both pawns and an enemy rook or queen share a rank with nothing
\* else between them.
C21_EnPassantNeverExposesKing == RefEnPassantSafe(state, GeneratedMoves(state))

\* C21 witness: a double push has just put king, both pawns and an enemy rook
\* on one rank, and the generator yields no en passant capture.
C21_RankPinnedEnPassant ==
    /\ Len(made_moves) >= 1
    /\ made_moves[Len(made_moves)].kind = "DoublePawnPush"
    /\ \E from \in get_pawn_attacks(CHOOSE s \in state.en_passant : TRUE, Not(state.turn))
                       \cap query(state, "Pawn", state.turn) :
           RefRankExposed(state, from, (CHOOSE s \in state.en_passant : TRUE) - 8 * RefPawnDir(state.turn))
    /\ \A m \in Range(position_moves) : m.kind # "EnPassant"

\* the list MoveGen::captures_only yields for a position
GeneratedCaptures(board) == MoveGen_to_vec(MoveGen_captures_only(board), board)

CapturingKinds == {"Capture", "EnPassant", "PromoteCapture"}

RefCapturesOnly(board, captures, legal) ==
    /\ Cardinality(Range(captures)) = Len(captures)
    /\ Range(captures) = IF RefInCheck(board, board.turn)
                         THEN Range(legal)
                         ELSE {m \in Range(legal) : m.kind \in CapturingKinds}

\* C22: MoveGen::captures_only yields, each once, every move of
\* MoveGen::legal when the side to move is in check, and otherwise exactly the
\* legal moves of kind Capture, EnPassant or PromoteCapture.
C22_CapturesOnlyIsLegalCaptures ==
    RefCapturesOnly(state, GeneratedCaptures(state), GeneratedMoves(state))

\* C22 witness: after a move the side to move is not in check and has a
\* promotion capture beside a plain promotion and quiet moves.
C22_CapturesAmongQuietMoves ==
    /\ Len(made_moves) >= 1
    /\ ~RefInCheck(state, state.turn)
    /\ \E m \in Range(GeneratedCaptures(state)) : m.kind = "PromoteCapture"
    /\ \E m \in Range(position_moves) : m.kind = "Promote"
    /\ \E m \in Range(position_moves) : m.kind = "Quiet"

\* C23: the halfmove clock lies in 0..100 in the position and in every
\* position ChessBoard::make_move reaches from it with a generated move.
C23_ClockWithinHundred ==
    /\ state.half_move_clock \in 0 .. 100
    /\ \A m \in Range(GeneratedMoves(state)) : make_move(state, m).half_move_clock \in 0 .. 100

\* the move is a pawn move or a capture
RefResetsClock(board, mv) ==
    \/ mv.kind \in {"DoublePawnPush", "EnPassant", "Promote", "PromoteCapture", "Capture"}
    \/ mv.kind = "Quiet" /\ <<mv.start, "Pawn">> \in RefPieces(board, board.turn)

\* C24: a made move that is a pawn move or a Capture sets the halfmove clock
\* to 0; any other move (Quiet by a piece that is no pawn, Castle) sets it to
\* its previous value plus one.
C24_ClockResetOrIncrement ==
    [][made_moves' # made_moves =>
          state'.half_move_clock =
              IF RefResetsClock(state, made_moves'[Len(made_moves')])
              THEN 0 ELSE state.half_move_clock + 1]_vars

\* C24 witness: a pawn move or capture has set the clock back to 0 right
\* after a quiet move of a piece had raised it.
C24_ClockResetAfterQuiet ==
    /\ Len(made_moves) >= 2
    /\ made_moves[Len(made_moves) - 1].kind \in {"Quiet", "Castle"}
    /\ made_moves[Len(made_moves) - 1].moving # "Pawn"
    /\ made_moves[Len(made_moves)].kind = "Quiet"
    /\ made_moves[Len(made_moves)].moving = "Pawn"
    /\ state.half_move_clock = 0

\* count_moves and size_hint of the generator are the number of moves it
\* still yields, now and after each further call of next
RECURSIVE RefCountIsRemaining(_, _)
RefCountIsRemainingAfter(r, board) == r.item # {} => RefCountIsRemaining(r.gen, board)

RefCountIsRemaining(gen, board) ==
    /\ MoveGen_count_moves(gen, board) = Len(MoveGen_to_vec(gen, board))
    /\ MoveGen_size_hint(gen, board) = <<Len(MoveGen_to_vec(gen, board)), {Len(MoveGen_to_vec(gen, board))}>>
    /\ RefCountIsRemainingAfter(MoveGen_next(gen, board), board)

\* C25: after any number of next() calls on the generator of the position,
\* count_moves() and size_hint() are the number of moves the remaining calls
\* yield.
C25_CountIsRemaining == RefCountIsRemaining(MoveGen_legal(state), state)

\* every set castling right has its king and its rook on their home squares
RefCastleRightsHeld(board) ==
    \A side \in {"Kingside", "Queenside"}, color \in Colors :
        CastlingRights_is_set(board.castling_rights, side, color) =>
            /\ <<RefKingHome(color), "King">> \in RefPieces(board, color)
            /\ <<RefRookHome(side, color), "Rook">> \in RefPieces(board, color)

\* C26: if every set castling right has that color's king on E1/E8 and the
\* matching rook on its home corner before a generated move is made, the same
\* holds after it.
C26_CastleRightInvariantKept ==
    [][RefCastleRightsHeld(state) => RefCastleRightsHeld(state')]_vars

\* C26 witness: a king or a rook has left its home square or a rook was
\* captured on it, rights are still set, and each of them has king and rook
\* at home.
C26_RightsLeftAreHeld ==
    /\ Len(made_moves) >= 1
    /\ \/ made_moves[Len(made_moves)].moving \in {"King", "Rook"}
       \/ made_moves[Len(made_moves)].end \in {A1, H1, A8, H8}
    /\ made_moves[Len(made_moves)].start \in {A1, E1, H1, A8, E8, H8}
    /\ made_moves[Len(made_moves)].kind \in {"Quiet", "Capture"}
    /\ state.castling_rights # {}
    /\ RefCastleRightsHeld(state)

RefEndsFrom(gen, s) == {m.end : m \in {n \in Range(gen) : n.start = s}}

RefPieceLegal(board, gen) ==
    \A s \in SQUARES :
        /\ MoveGen_piece_legal(board, s) = RefEndsFrom(gen, s)
        /\ (\/ s \notin RefOccupied(board)
            \/ s \in board.color_bbs[Not(board.turn)]
            \/ /\ Cardinality(board.checkers) >= 2
               /\ <<s, "King">> \notin RefPieces(board, board.turn))
              => MoveGen_piece_legal(board, s) = {}

\* C27: for every square s, MoveGen::piece_legal(P, s) is the set of end
\* squares of the moves of MoveGen::legal(P) that start at s, and it is empty
\* when s is empty, holds a piece of the side not to move, or holds a piece
\* other than the king while two or more pieces give check.
C27_PieceLegalIsLegalEnds == RefPieceLegal(state, GeneratedMoves(state))

\* C27 witness: after a move a pinned piece has no square to go to while
\* other pieces of the side to move have.
C27_PinnedPieceAsked ==
    /\ Len(made_moves) >= 1
    /\ \E s \in state.pinned : MoveGen_piece_legal(state, s) = {}
    /\ \E s \in SQUARES : MoveGen_piece_legal(state, s) # {}

\* the enemy pawns, knights, bishops, rooks and queens attacking the king of
\* the side to move
RefCheckers(board) ==
    {p[1] : p \in {q \in RefPieces(board, Not(board.turn)) :
                      /\ q[2] # "King"
                      /\ RefAttacks(board, q[1], q[2], Not(board.turn), RefKing(board, board.turn))}}

\* an enemy rook or queen on the king's rank or file, or an enemy bishop or
\* queen on one of its diagonals
RefLinedUp(king, p) ==
    \/ p[2] \in {"Rook", "Queen"} /\ RefOnLine(king, p[1])
    \/ p[2] \in {"Bishop", "Queen"} /\ RefOnDiagonal(king, p[1])

\* the pieces of the side to move standing alone between their king and such
\* an enemy piece
RefPinned(board) ==
    {s \in board.color_bbs[board.turn] :
        \E p \in RefPieces(board, Not(board.turn)) :
            /\ RefLinedUp(RefKing(board, board.turn), p)
            /\ RefBetween(RefKing(board, board.turn), p[1]) \cap RefOccupied(board) = {s}}

\* C28: in every position, constructed or reached by a move, checkers is the
\* set of enemy pawns, knights, bishops, rooks and queens attacking the king
\* of the side to move, and pinned the set of its pieces standing alone
\* between that king and an enemy rook or queen on a rank or file or an enemy
\* bishop or queen on a diagonal.
C28_CheckersAndPinnedExact ==
    /\ state.checkers = RefCheckers(state)
    /\ state.pinned = RefPinned(state)

\* C28 witness: a move has given check while a piece of the checked side is
\* pinned.
C28_PinAfterMove ==
    /\ Len(made_moves) >= 1
    /\ state.pinned # {}
    /\ state.checkers # {}

\* the rank and file steps of a direction
RefStep(dir) ==
    CASE dir = "Up" -> <<1, 0>>
      [] dir = "Down" -> <<-1, 0>>
      [] dir = "Left" -> <<0, -1>>
      [] dir = "Right" -> <<0, 1>>
      [] dir = "UpLeft" -> <<1, -1>>
      [] dir = "UpRight" -> <<1, 1>>
      [] dir = "DownLeft" -> <<-1, -1>>
      [] dir = "DownRight" -> <<-1, 1>>

\* the squares of bb moved one step, those that would leave the board dropped
RefShifted(bb, dir) ==
    {s + 8 * RefStep(dir)[1] + RefStep(dir)[2] :
        s \in {t \in bb : /\ Rank_of(t) + RefStep(dir)[1] \in 0 .. 7
                          /\ File_of(t) + RefStep(dir)[2] \in 0 .. 7}}

\* C29: every shift of a BitBoard (up, down, left, right, shift_dir) moves
\* each square one step in its direction and drops the squares that would
\* leave the board; none comes back on the neighbouring rank.
C29_ShiftsDropEdgeSquares ==
    [][shifted'.bb = RefShifted(shifted.bb, shifted'.dir)]_vars

\* C30: a game whose caller keeps making generated moves reaches a recorded
\* result, and from then on make_move returns Err and the result stays.
C30_GameTerminates ==
    /\ <>(result # "None")
    /\ [][result # "None" => (ret' = "Err" /\ result' = result)]_vars

\* C30 witness: the game went on to the fifty move rule and a further
\* make_move was refused.
C30_RefusedAfterFiftyMoves ==
    /\ Len(made_moves) >= 3
    /\ result = Draw("FiftyMoves")
    /\ ret = "Err"

====
